---- MODULE Spec2Model ----
(***************************************************************************)
(* Model of the ERA5 / CDS retrieval path of weather_data_retrieval:       *)
(* run() validates and maps a configuration into a SessionState, plans the *)
(* months of the date range against the files of the save directory, and   *)
(* downloads the planned months with a retry / re-authentication loop,     *)
(* sequentially or on a bounded thread pool.                               *)
(*                                                                         *)
(* Logging arguments (logger, echo_console, verbose) carry no state and    *)
(* are not modelled.  Python's None is the empty tuple <<>> and a value v  *)
(* is the one-element tuple <<v>>, so that `x is None` is x = <<>>.        *)
(***************************************************************************)
EXTENDS Integers, Sequences, FiniteSets, TLC

\* ------------------------------------------------------------------ bounds
\* Longest date range, in months, that a configuration asks for.
MaxMonths == 3
\* Largest retry_settings.max_retries a configuration asks for.
MaxRetriesIn == 2
\* Number of distinct CDS clients that can exist in one behaviour.
MaxClients == 2
\* Number of consecutive runs over the same save directory.
MaxRuns == 2

\* ------------------------------------------------------- program constants
RetryCap == 20
ConcurrencyCap == 8
ConcurrencyFloor == 2
DefaultMaxRetries == 6
DelayCap == 3600
DefaultRetryDelay == 15

None == <<>>
Some(v) == <<v>>
IsNone(x) == x = <<>>
Val(x) == x[1]

Max(a, b) == IF a >= b THEN a ELSE b

\* ------------------------------------------------------------------- dates
\* A date is <<year, month, day>>.
\* The comparison without equality: `cur < e`.
DateBefore(a, b) ==
    \/ a[1] < b[1]
    \/ a[1] = b[1] /\ a[2] < b[2]
    \/ a[1] = b[1] /\ a[2] = b[2] /\ a[3] < b[3]

\* datetime comparison `<=` is lexicographic.
DateLE(a, b) ==
    \/ a[1] < b[1]
    \/ a[1] = b[1] /\ a[2] < b[2]
    \/ a[1] = b[1] /\ a[2] = b[2] /\ a[3] <= b[3]

DateLT(a, b) == DateLE(a, b) /\ a # b

\* cur = datetime(cur.year + 1, 1, 1) if cur.month == 12 else datetime(cur.year, cur.month + 1, 1)
NextMonthStart(cur) ==
    IF cur[2] = 12 THEN <<cur[1] + 1, 1, 1>> ELSE <<cur[1], cur[2] + 1, 1>>

\* The while loop of plan_cds_months that builds `months`.
RECURSIVE MonthsFrom(_, _)
MonthsFrom(cur, e) ==
    IF DateLE(cur, e)
    THEN <<(<<cur[1], cur[2]>>)>> \o MonthsFrom(NextMonthStart(cur), e)
    ELSE <<>>

MonthList(s, e) == MonthsFrom(<<s[1], s[2], 1>>, e)

\* The clamp with its comparison turned round: `if end < upper`.
clamp_comparison_flipped(end, upper) ==
    IF DateLT(end, upper) THEN upper ELSE end

\* EIGHT_DAY_LAG clamp: the earlier of `end` and the availability boundary.
clamp_era5_available_end_date(end, upper) ==
    IF DateLT(upper, end) THEN upper ELSE end

\* timedelta arithmetic on dates: the lengths of the months, the day before
\* a date, and the date n days before a date.
DaysInMonth(y, m) ==
    IF m = 2
    THEN (IF (y % 4 = 0 /\ y % 100 # 0) \/ y % 400 = 0 THEN 29 ELSE 28)
    ELSE IF m \in {4, 6, 9, 11} THEN 30 ELSE 31

PreviousDay(d) ==
    IF d[3] > 1 THEN <<d[1], d[2], d[3] - 1>>
    ELSE IF d[2] > 1 THEN <<d[1], d[2] - 1, DaysInMonth(d[1], d[2] - 1)>>
    ELSE <<d[1] - 1, 12, 31>>

RECURSIVE DaysBefore(_, _)
DaysBefore(d, n) == IF n = 0 THEN d ELSE DaysBefore(PreviousDay(d), n - 1)

\* upper = datetime.now().replace(hour=0, ...) - timedelta(days=EIGHT_DAY_LAG)
EIGHT_DAY_LAG == 8
AvailabilityUpper(today) == DaysBefore(today, EIGHT_DAY_LAG)

\* --------------------------------------------------------------- file names
\* A file name is the tuple of the pieces the f-string joins:
\*   <<filename_base, "_", year, separator, month, ".", extension>>.
\* year and month stand for their digit strings ({year}, {year:04d} and
\* {month:02d} agree on four-digit years and on 1..12).
AlnumExtensions == {"grib", "nc"}

\* os.path.join(save_dir, f"{filename_base}_{year}_{month:02d}.{data_file_format}")
SavePathName(base, fmt, y, m) == <<base, "_", y, "_", m, ".", fmt>>

\* The pattern with the underscore left out of the separator class.
PatternMatchesDashOnly(name, base, y, m) ==
    /\ Len(name) = 7
    /\ name[1] = base
    /\ name[2] = "_"
    /\ name[3] = y
    /\ name[4] = "-"
    /\ name[5] = m
    /\ name[6] = "."
    /\ name[7] \in AlnumExtensions

\* rf"^{re.escape(filename_base)}_(?:{year:04d}[-_]{month:02d})\.[A-Za-z0-9]+$"
PatternMatches(name, base, y, m) ==
    /\ Len(name) = 7
    /\ name[1] = base
    /\ name[2] = "_"
    /\ name[3] = y
    /\ name[4] \in {"-", "_"}
    /\ name[5] = m
    /\ name[6] = "."
    /\ name[7] \in AlnumExtensions

\* find_existing_month_file: the save directory exists (run() creates it), so
\* the result is a matching file of the directory, or None.
ExistingMonthFiles(dir, base, y, m) == {p \in dir : PatternMatches(p, base, y, m)}

\* ------------------------------------------------------------ SessionState
\* self.fields, in declaration order ("Order matters - matches prompt flow").
FieldOrder ==
    << "data_provider", "dataset_short_name", "api_url", "api_key",
       "session_client", "save_dir", "start_date", "end_date",
       "region_bounds", "variables", "existing_file_action",
       "parallel_settings", "retry_settings", "inputs_confirmed" >>

Fields == {FieldOrder[i] : i \in 1..Len(FieldOrder)}

\* SessionState.__init__
NewSession == [k \in Fields |-> [value |-> None, filled |-> FALSE]]

\* SessionState.set
SessionSet(s, key, value) ==
    IF key \in Fields
    THEN [s EXCEPT ![key] = [value |-> Some(value), filled |-> TRUE]]
    ELSE s

\* SessionState.unset
SessionUnset(s, key) ==
    IF key \in Fields
    THEN [s EXCEPT ![key] = [value |-> None, filled |-> FALSE]]
    ELSE s

\* SessionState.get
SessionGet(s, key) == IF key \in Fields THEN s[key].value ELSE None

\* ----------------------------------------------------------- configuration
\* A configuration is [keys |-> the keys present, v |-> their values].
CommonRequiredKeys ==
    << "data_provider", "dataset_short_name", "save_dir", "start_date",
       "end_date", "region_bounds", "variables", "existing_file_action",
       "retry_settings", "parallel_settings" >>

CdsRequiredKeys == << "api_url", "api_key" >>

ConfigKeys ==
    {CommonRequiredKeys[i] : i \in 1..Len(CommonRequiredKeys)}
        \cup {CdsRequiredKeys[i] : i \in 1..Len(CdsRequiredKeys)}

\* CDS_DATASETS
CdsDatasets == {"era5-world", "era5-land"}
DataDownloadFormat == "grib"

\* invalid_era5_world_variables (one representative of the deny-list)
DenyList == {"snowfall"}
\* invalid_era5_land_variables (one representative)
LandDenyList == {"geopotential"}
\* The deny-list of a dataset, as run_prompt_wizard picks it.
DatasetDenyList(ds) == IF ds = "era5-land" THEN LandDenyList ELSE DenyList

ExistingFileActions == {"overwrite_all", "skip_all", "case_by_case"}

validate_data_provider(provider) == provider \in {"cds", "open-meteo"}

\* Called with provider "cds" only once validate_data_provider has passed and
\* the models' configurations never name open-meteo.
validate_dataset_short_name(ds, provider) ==
    IF provider = "cds" THEN ds \in CdsDatasets ELSE FALSE

\* The check with its arguments read in the order north, south, east, west.
validate_coordinates_nsew(north, west, south, east) ==
    /\ -90 <= west /\ west <= 90
    /\ -90 <= north /\ north <= 90
    /\ -180 <= east /\ east <= 180
    /\ -180 <= south /\ south <= 180
    /\ north > west

\* all([-90 <= south <= 90, -90 <= north <= 90, -180 <= west <= 180,
\*      -180 <= east <= 180, north > south])
validate_coordinates(north, west, south, east) ==
    /\ -90 <= south /\ south <= 90
    /\ -90 <= north /\ north <= 90
    /\ -180 <= west /\ west <= 180
    /\ -180 <= east /\ east <= 180
    /\ north > south

SeqToSet(q) == {q[i] : i \in 1..Len(q)}

\* validate_variables(..., restriction_allow=False)
validate_variables(variable_list, restrictions) ==
    /\ variable_list # <<>>
    /\ SeqToSet(variable_list) \cap restrictions = {}

\* The remote side: the api keys it accepts (validate_cds_api_key builds a
\* client and probes it; a rejected key gives None).
AcceptedKeys == {"good-key"}

\* A validation message: the text's kind and the configuration keys it names.
Msg(kind, fields) == [kind |-> kind, fields |-> fields]

\* _require_keys
MissingKeys(cfg, required) ==
    {required[i] : i \in {j \in 1..Len(required) : required[j] \notin cfg.keys}}

\* _validate_common followed by _validate_cds, as validate_config runs them:
\* the first failing check raises ValueError and nothing after it is looked
\* at.  Result: [ok, error, cfg] where cfg is the configuration as normalised
\* in place (existing_file_action coerced, retry and parallel settings capped,
\* end_date clamped).
ValidateRaise(msg, cfg) == [ok |-> FALSE, error |-> msg, cfg |-> cfg, warnings |-> {}]

\* d.get(key, default) on a dict
DictGet(d, key, default) == IF key \in DOMAIN d THEN d[key] ELSE default

\* The soft cap on max_retries only: retry_delay_sec is stored as given.
CappedRetriesCountOnly(rs) ==
    LET max_retries == DictGet(rs, "max_retries", DefaultMaxRetries)
        retry_delay == DictGet(rs, "retry_delay_sec", DefaultRetryDelay)
    IN  [max_retries |-> IF max_retries > RetryCap THEN RetryCap ELSE max_retries,
         retry_delay_sec |-> retry_delay]

\* The soft caps, and config["retry_settings"] = {"max_retries": ...,
\* "retry_delay_sec": ...} written back with both keys.
CappedRetries(rs) ==
    LET max_retries == DictGet(rs, "max_retries", DefaultMaxRetries)
        retry_delay == DictGet(rs, "retry_delay_sec", DefaultRetryDelay)
    IN  [max_retries |-> IF max_retries > RetryCap THEN RetryCap ELSE max_retries,
         retry_delay_sec |-> IF retry_delay > DelayCap THEN DelayCap ELSE retry_delay]

\* Only the lower of the two corrections: no limit of ConcurrencyCap.
CappedParallelFloorOnly(ps) ==
    LET low == IF ps.enabled /\ ps.max_concurrent < 1 THEN 1 ELSE ps.max_concurrent
    IN  [enabled |-> ps.enabled, max_concurrent |-> low]

CappedParallel(ps) ==
    LET low == IF ps.enabled /\ ps.max_concurrent < 1 THEN 1 ELSE ps.max_concurrent
        high == IF ps.enabled /\ low > ConcurrencyCap THEN ConcurrencyCap ELSE low
    IN  [enabled |-> ps.enabled, max_concurrent |-> high]

validate_config(cfg, run_mode, upper) ==
    LET v == cfg.v
        missing == MissingKeys(cfg, CommonRequiredKeys)
        missingCds == MissingKeys(cfg, CdsRequiredKeys)
        efa == IF run_mode = "automatic" /\ v.existing_file_action = "case_by_case"
               THEN "skip_all" ELSE v.existing_file_action
        normal == [cfg EXCEPT
                     !.v.existing_file_action = efa,
                     !.v.retry_settings = CappedRetries(v.retry_settings),
                     !.v.parallel_settings = CappedParallel(v.parallel_settings),
                     !.v.end_date = clamp_era5_available_end_date(v.end_date, upper)]
    IN  IF missing # {} THEN ValidateRaise(Msg("missing_keys", missing), cfg)
        ELSE IF ~validate_data_provider(v.data_provider)
            THEN ValidateRaise(Msg("invalid_provider", {"data_provider"}), cfg)
        ELSE IF ~validate_dataset_short_name(v.dataset_short_name, v.data_provider)
            THEN ValidateRaise(Msg("invalid_dataset", {"dataset_short_name"}), cfg)
        ELSE IF ~DateLT(v.start_date, v.end_date)
            THEN ValidateRaise(Msg("end_not_after_start", {"end_date"}), cfg)
        ELSE IF ~validate_coordinates(v.region_bounds[1], v.region_bounds[2],
                                      v.region_bounds[3], v.region_bounds[4])
            THEN ValidateRaise(Msg("invalid_coordinates", {"region_bounds"}), cfg)
        ELSE IF v.variables = <<>>
            THEN ValidateRaise(Msg("variables_empty", {"variables"}), cfg)
        ELSE IF v.existing_file_action \notin ExistingFileActions
            THEN ValidateRaise(Msg("invalid_policy", {"existing_file_action"}), cfg)
        ELSE IF DictGet(v.retry_settings, "max_retries", DefaultMaxRetries) < 0
            THEN ValidateRaise(Msg("invalid_max_retries", {"retry_settings"}), cfg)
        ELSE IF DictGet(v.retry_settings, "retry_delay_sec", DefaultRetryDelay) < 0
            THEN ValidateRaise(Msg("invalid_retry_delay", {"retry_settings"}), cfg)
        ELSE IF missingCds # {}
            THEN ValidateRaise(Msg("missing_keys", missingCds), cfg)
        ELSE IF ~validate_variables(v.variables, DenyList)
            THEN ValidateRaise(Msg("invalid_variables", {"variables"}), cfg)
        ELSE [ok |-> TRUE, error |-> Msg("none", {}), cfg |-> normal,
              warnings |->
                (IF efa # v.existing_file_action THEN {"config_policy_coerced"} ELSE {})
                  \cup (IF DictGet(v.retry_settings, "max_retries", DefaultMaxRetries)
                             > RetryCap
                        THEN {"max_retries_capped"} ELSE {})
                  \cup (IF DictGet(v.retry_settings, "retry_delay_sec", DefaultRetryDelay)
                             > DelayCap
                        THEN {"retry_delay_capped"} ELSE {})
                  \cup (IF normal.v.parallel_settings # v.parallel_settings
                        THEN {"max_concurrent_limited"} ELSE {})
                  \cup (IF normal.v.end_date # v.end_date
                        THEN {"end_date_clamped"} ELSE {})]

\* ---------------------------------------------------- map_config_to_session
\* cfg.get(key, default)
CfgGet(cfg, key, default) == IF key \in cfg.keys THEN cfg.v[key] ELSE default

\* validate_cds_api_key: the client the first authentication constructs, or
\* None when the remote side rejects the key.
FirstClient == 1
AuthProbe(api_key) == IF api_key \in AcceptedKeys THEN Some(FirstClient) ELSE None

\* Each section of map_config_to_session takes and returns
\* [s |-> session, errors |-> the errors list so far].
AddError(acc, msg) == [acc EXCEPT !.errors = Append(@, msg)]
SetField(acc, key, value) == [acc EXCEPT !.s = SessionSet(@, key, value)]

MapProvider(cfg, acc) ==
    LET provider == CfgGet(cfg, "data_provider", "cds")
    IN  IF ~validate_data_provider(provider)
        THEN AddError(acc, Msg("invalid_provider", {"data_provider"}))
        ELSE IF provider # "cds"
        THEN AddError(acc, Msg("unsupported_provider", {"data_provider"}))
        ELSE SetField(acc, "data_provider", provider)

MapDataset(cfg, acc) ==
    LET ds == CfgGet(cfg, "dataset_short_name", "era5-world")
    IN  IF ~validate_dataset_short_name(ds, "cds")
        THEN AddError(acc, Msg("invalid_dataset", {"dataset_short_name"}))
        ELSE SetField(acc, "dataset_short_name", ds)

MapApi(cfg, acc) ==
    LET api_url == CfgGet(cfg, "api_url", "https://cds.climate.copernicus.eu/api")
        api_key == CfgGet(cfg, "api_key", "")
        withCreds == SetField(SetField(acc, "api_url", api_url), "api_key", api_key)
        client == AuthProbe(api_key)
    IN  IF "session_client" \in cfg.keys
        THEN SetField(withCreds, "session_client", cfg.v["session_client"])
        ELSE IF api_key = ""
        THEN AddError(acc, Msg("missing_api_key", {"api_key"}))
        ELSE IF IsNone(client)
        THEN AddError(withCreds, Msg("authentication_failed", {"api_key"}))
        ELSE SetField(withCreds, "session_client", Val(client))

MapDates(cfg, acc, upper) ==
    IF "start_date" \notin cfg.keys \/ "end_date" \notin cfg.keys
    THEN AddError(acc, Msg("dates_required", {"start_date", "end_date"}))
    ELSE LET s_dt == cfg.v["start_date"]
             e_dt == cfg.v["end_date"]
             checked == IF DateLE(e_dt, s_dt)
                        THEN AddError(acc, Msg("end_not_after_start", {"end_date"}))
                        ELSE acc
         IN  SetField(SetField(checked, "start_date", s_dt),
                      "end_date", clamp_era5_available_end_date(e_dt, upper))

MapBounds(cfg, acc) ==
    IF "region_bounds" \notin cfg.keys
    THEN AddError(acc, Msg("missing_bounds", {"region_bounds"}))
    ELSE LET b == cfg.v["region_bounds"]
         IN  IF ~validate_coordinates(b[1], b[2], b[3], b[4])
             THEN AddError(acc, Msg("invalid_coordinates", {"region_bounds"}))
             ELSE SetField(acc, "region_bounds", b)

\* invalid = [v for v in variables if v in deny]
KeepDenied(variables, deny) == SelectSeq(variables, LAMBDA x : x \in deny)

\* valid = [v for v in variables if v not in deny]
DropDenied(variables, deny) == SelectSeq(variables, LAMBDA x : x \notin deny)

\* `deny = invalid_era5_world_variables` whatever the dataset; `filtered` is
\* the list named by the "Filtering out disallowed variables" message.
MapVariables(cfg, acc) ==
    IF "variables" \notin cfg.keys
    THEN AddError(acc, Msg("missing_variables", {"variables"}))
    ELSE LET variables == cfg.v["variables"]
             valid == DropDenied(variables, DenyList)
             invalid == KeepDenied(variables, DenyList)
             noted == [acc EXCEPT !.filtered = invalid]
         IN  IF variables = <<>> THEN acc
             ELSE IF valid = <<>>
             THEN AddError(noted, Msg("no_variables_remain", {"variables"}))
             ELSE SetField(noted, "variables", valid)

MapSaveDir(cfg, acc) ==
    SetField(acc, "save_dir", CfgGet(cfg, "save_dir", "data/raw"))

MapPolicy(cfg, acc) ==
    LET efa == CfgGet(cfg, "existing_file_action", "case_by_case")
    IN  IF efa \in ExistingFileActions
        THEN SetField(acc, "existing_file_action", efa)
        ELSE SetField(acc, "existing_file_action", "case_by_case")

\* A settings value that is a mapping of numbers is the record of its
\* entries.  A value of another Python type is a record that names the type:
\* a list in place of the mapping, or a mapping whose entries are text that
\* is not a number.
NotAMapping == [py |-> "list"]
TextInMapping == [py |-> "dict_of_text"]
PyShape(value) == IF "py" \in DOMAIN value THEN value.py ELSE "dict"

\* An exception leaves the function: the sections after it do not run.
Raise(acc, exception) == [acc EXCEPT !.raised = exception]

\* retries.get(...) on a value without .get is AttributeError; int("many") is
\* ValueError.  Neither call is inside a try.
MapRetry(cfg, acc) ==
    LET retries == CfgGet(cfg, "retry_settings", [max_retries |-> DefaultMaxRetries])
        max_retries == DictGet(retries, "max_retries", DefaultMaxRetries)
        retry_delay == DictGet(retries, "retry_delay_sec",
                               DictGet(retries, "retry_delay", DefaultRetryDelay))
    IN  IF PyShape(retries) = "list" THEN Raise(acc, "AttributeError")
        ELSE IF PyShape(retries) = "dict_of_text" THEN Raise(acc, "ValueError")
        ELSE IF max_retries < 0 \/ retry_delay < 0
        THEN AddError(acc, Msg("retry_negative", {"retry_settings"}))
        ELSE SetField(acc, "retry_settings",
                      [max_retries |-> max_retries, retry_delay_sec |-> retry_delay])

\* parallel.get(...) on a value without .get is AttributeError; int(mc) is
\* inside `try: ... except Exception: mc = 2`.
MapParallel(cfg, acc) ==
    LET given == CfgGet(cfg, "parallel_settings",
                        [enabled |-> TRUE, max_concurrent |-> ConcurrencyFloor])
        parallel == IF PyShape(given) = "dict" THEN given
                    ELSE [enabled |-> TRUE, max_concurrent |-> ConcurrencyFloor]
        mc == IF parallel.max_concurrent < ConcurrencyFloor
              THEN ConcurrencyFloor ELSE parallel.max_concurrent
    IN  IF PyShape(given) = "list" THEN Raise(acc, "AttributeError")
        ELSE IF ~parallel.enabled
        THEN SetField(acc, "parallel_settings", [enabled |-> FALSE, max_concurrent |-> 1])
        ELSE SetField(acc, "parallel_settings", [enabled |-> TRUE, max_concurrent |-> mc])

\* Result: [ok, s, errors, raised]; ok is `not errors`; raised names the
\* exception that left the function, "none" when it returned.
map_config_to_session(cfg, session, upper) ==
    LET a0 == [s |-> session, errors |-> <<>>, raised |-> "none", filtered |-> <<>>]
        a1 == MapProvider(cfg, a0)
        a2 == MapDataset(cfg, a1)
        a3 == MapApi(cfg, a2)
        a4 == MapDates(cfg, a3, upper)
        a5 == MapBounds(cfg, a4)
        a6 == MapVariables(cfg, a5)
        a7 == MapSaveDir(cfg, a6)
        a8 == MapPolicy(cfg, a7)
        a9 == MapRetry(cfg, a8)
        a10 == IF a9.raised # "none" THEN a9 ELSE MapParallel(cfg, a9)
    IN  [ok |-> a10.errors = <<>> /\ a10.raised = "none", s |-> a10.s,
         errors |-> a10.errors, raised |-> a10.raised, filtered |-> a10.filtered]

\* ------------------------------------------------------------------ inputs
\* The clock: today minus EIGHT_DAY_LAG days, at midnight.
AvailabilityBoundary == <<2025, 6, 1>>

StartDate == <<2020, 11, 15>>

\* The end date that makes the range n months long (n >= 1).
RECURSIVE MonthStartAfter(_, _)
MonthStartAfter(cur, n) ==
    IF n = 0 THEN cur ELSE MonthStartAfter(NextMonthStart(cur), n - 1)

EndDateFor(n) ==
    LET first == MonthStartAfter(<<StartDate[1], StartDate[2], 1>>, n - 1)
    IN  <<first[1], first[2], 20>>

ParallelInputs ==
    { [enabled |-> FALSE, max_concurrent |-> 1],
      [enabled |-> TRUE, max_concurrent |-> 1],
      [enabled |-> TRUE, max_concurrent |-> 2],
      [enabled |-> TRUE, max_concurrent |-> 9] }

BaseValues ==
    [ data_provider |-> "cds",
      dataset_short_name |-> "era5-world",
      api_url |-> "https://cds.climate.copernicus.eu/api",
      api_key |-> "good-key",
      session_client |-> FirstClient,
      save_dir |-> "data/raw",
      start_date |-> StartDate,
      end_date |-> EndDateFor(1),
      region_bounds |-> <<10, 0, 0, 20>>,
      variables |-> <<"2m_temperature">>,
      existing_file_action |-> "skip_all",
      retry_settings |-> [max_retries |-> 1],
      parallel_settings |-> [enabled |-> FALSE, max_concurrent |-> 1] ]

\* Configurations that pass validation: every range length, policy, retry
\* count and parallel setting.
ValidConfigs ==
    { [keys |-> ConfigKeys,
       v |-> [BaseValues EXCEPT !.end_date = EndDateFor(n),
                                !.existing_file_action = efa,
                                !.retry_settings = [max_retries |-> r],
                                !.parallel_settings = par]] :
        n \in 1..MaxMonths, efa \in ExistingFileActions,
        r \in 0..MaxRetriesIn, par \in ParallelInputs }

\* Ways a configuration can be wrong, one per field.
Faults == {"data_provider", "end_date", "region_bounds", "variables", "api_key", "save_dir"}

Faulty(F) ==
    [keys |-> IF "save_dir" \in F THEN ConfigKeys \ {"save_dir"} ELSE ConfigKeys,
     v |-> [BaseValues EXCEPT
              !.data_provider = IF "data_provider" \in F THEN "ecmwf" ELSE @,
              !.end_date = IF "end_date" \in F THEN <<2020, 1, 1>> ELSE @,
              !.region_bounds = IF "region_bounds" \in F THEN <<-10, 0, 10, 20>> ELSE @,
              !.variables = IF "variables" \in F THEN <<>> ELSE @,
              !.api_key = IF "api_key" \in F THEN "revoked-key" ELSE @]]

InvalidConfigs == {Faulty(F) : F \in (SUBSET Faults) \ {{}}}

\* The fields of a configuration that are wrong, each judged on its own.
InvalidFields(cfg) ==
    {k \in ConfigKeys : k \notin cfg.keys}
        \cup (IF ~validate_data_provider(cfg.v.data_provider) THEN {"data_provider"} ELSE {})
        \cup (IF ~DateLT(cfg.v.start_date, cfg.v.end_date) THEN {"end_date"} ELSE {})
        \cup (IF ~validate_coordinates(cfg.v.region_bounds[1], cfg.v.region_bounds[2],
                                       cfg.v.region_bounds[3], cfg.v.region_bounds[4])
              THEN {"region_bounds"} ELSE {})
        \cup (IF ~validate_variables(cfg.v.variables, DenyList) THEN {"variables"} ELSE {})
        \cup (IF cfg.v.api_key \notin AcceptedKeys THEN {"api_key"} ELSE {})

\* filename_base = f"{dataset_short_name}_{coord_str}_{hash_str}": one value for
\* the one dataset, region and variable list of the configurations above.
FilenameBase == "era5-world_N10W0S0E20_hash"

\* Save directories a run can start with: empty; holding a file of the first
\* month written under the older `_YYYY-MM` naming; holding a file of the
\* first month under the name the executor writes and an older-named file of
\* the second month.
LegacyFile == <<FilenameBase, "_", StartDate[1], "-", StartDate[2], ".", "nc">>
CurrentFile == SavePathName(FilenameBase, DataDownloadFormat, StartDate[1], StartDate[2])
LegacyFileNext ==
    <<FilenameBase, "_", NextMonthStart(StartDate)[1], "-", NextMonthStart(StartDate)[2], ".", "nc">>
InitialDirectories == {{}, {LegacyFile}, {CurrentFile, LegacyFileNext}}

RunModes == {"automatic", "interactive"}
Answers == {"yes", "no"}

\* ------------------------------------------------------------------- state
VARIABLES
    config,              \* the configuration handed to run(), normalised in place
    run_mode,            \* "automatic" | "interactive"
    session,             \* the SessionState of the run
    directory,           \* names of the files in the save directory
    rpc,                 \* where run() is: start, orchestrate, download, summary, returned
    exit_code,           \* what run() returned: "unset", "0", "1", "2", "None"
    reported,            \* error messages run() logged
    orch,                \* orchestrate_cds_downloads: none, running, returned, raised
    months_to_download,  \* the planner's work list
    successful_downloads,
    failed_downloads,
    skipped_downloads,
    tpc,                 \* per planned month: pending, attempt, reauth, append, done, raised
    attempt,             \* per planned month: the loop variable of the retry loop
    client,              \* per planned month: the local cds_client_session
    status,              \* per planned month: what execute_cds_download returned
    tries,               \* per planned month: retrieve calls made
    waits,               \* per planned month: time.sleep(retry_delay_sec) calls made
    reauth,              \* per planned month: how the re-authentication before the
                         \*   attempt in progress ended: none, same, new, failed
    clientsMade,         \* cdsapi.Client objects constructed so far
    runs,                \* runs started over this save directory
    previous,            \* outcome lists and retrieve count of the run before
    prompts,             \* overwrite questions asked so far, in the order asked:
                         \*   [month, by ("plan" | "task"), answer ("yes" | "no")]
    warnings,            \* kinds of the warnings logged so far
    wizard,              \* run_prompt_wizard: which copy of cli.py runs, where it
                         \*   is, and the last answer to the final confirmation
    lib                  \* the last call of a library function: its name,
                         \*   arguments and result

vars ==
    << config, run_mode, session, directory, rpc, exit_code, reported, orch,
       months_to_download, successful_downloads, failed_downloads,
       skipped_downloads, tpc, attempt, client, status, tries, waits,
       reauth, clientsMade, runs, previous, prompts, warnings, wizard, lib >>

runVars == << config, run_mode, runs, previous >>
listVars == << successful_downloads, failed_downloads, skipped_downloads >>
taskVars == << tpc, attempt, client, status, tries, waits, reauth >>
ioVars == << prompts, warnings >>
auxVars == << wizard, lib >>

\* No wizard runs (main was started with --config) and no library function
\* has been called.
NoWizard == [copy |-> "none", pc |-> "none", answer |-> "none", selection |-> "none"]
NoCall == [fn |-> "none"]

Tasks == 1..Len(months_to_download)
Terminal == {"done", "raised"}
InProgress == {i \in Tasks : tpc[i] \in {"attempt", "reauth", "append"}}

NoPrevious == [ran |-> FALSE, successful |-> {}, failed |-> {}, skipped |-> {}]

FreshRun ==
    /\ session = NewSession
    /\ rpc = "start"
    /\ exit_code = "unset"
    /\ reported = <<>>
    /\ orch = "none"
    /\ months_to_download = <<>>
    /\ successful_downloads = <<>>
    /\ failed_downloads = <<>>
    /\ skipped_downloads = <<>>
    /\ tpc = <<>> /\ attempt = <<>> /\ client = <<>>
    /\ status = <<>> /\ tries = <<>> /\ waits = <<>> /\ reauth = <<>>
    /\ prompts = <<>>
    /\ warnings = {}

Init ==
    /\ config \in ValidConfigs \cup InvalidConfigs
    /\ run_mode \in RunModes
    /\ directory \in InitialDirectories
    /\ clientsMade = 0
    /\ runs = 1
    /\ previous = NoPrevious
    /\ wizard = NoWizard
    /\ lib = NoCall
    /\ FreshRun

\* ------------------------------------------------------------------- run()
\* Steps 1 and 2 of run(): validate_config, then map_config_to_session into a
\* new SessionState.  A ValueError of validate_config lands in run()'s
\* `except Exception`, which logs that one exception and returns 1; a mapping
\* that is not ok logs its notes and returns 1.
RunStart ==
    /\ rpc = "start"
    /\ LET checked == validate_config(config, run_mode, AvailabilityBoundary)
           mapped == map_config_to_session(checked.cfg, NewSession, AvailabilityBoundary)
       IN  IF ~checked.ok
           THEN /\ reported' = <<checked.error>>
                /\ exit_code' = "1"
                /\ rpc' = "returned"
                /\ UNCHANGED << config, session, clientsMade, warnings >>
           ELSE /\ config' = checked.cfg
                /\ warnings' = warnings \cup checked.warnings
                /\ session' = mapped.s
                /\ clientsMade' = IF "session_client" \in checked.cfg.keys
                                  THEN clientsMade
                                  ELSE IF IsNone(SessionGet(mapped.s, "session_client"))
                                  THEN 0 ELSE FirstClient
                /\ IF mapped.ok
                   THEN /\ rpc' = "orchestrate"
                        /\ UNCHANGED << reported, exit_code >>
                   ELSE /\ reported' = mapped.errors
                        /\ exit_code' = "1"
                        /\ rpc' = "returned"
    /\ UNCHANGED << auxVars, run_mode, directory, orch, months_to_download, listVars,
                    taskVars, runs, previous, prompts >>

\* ------------------------------------------------------------- the planner
\* A normalisation that hands a recognised policy back as it is stored.
validate_existing_file_action_as_stored(s, allow_prompts) ==
    LET stored == SessionGet(s, "existing_file_action")
    IN  [policy |-> IF IsNone(stored) THEN "case_by_case" ELSE Val(stored),
         s |-> s, warnings |-> {}]

\* validate_existing_file_action: [policy, s, warnings], s being the session
\* afterwards and warnings the kinds of the warnings it logs.
validate_existing_file_action(s, allow_prompts) ==
    LET stored == SessionGet(s, "existing_file_action")
        policy == IF IsNone(stored) THEN "case_by_case" ELSE Val(stored)
    IN  IF policy \notin ExistingFileActions
        THEN IF allow_prompts
             THEN [policy |-> "case_by_case", s |-> s,
                   warnings |-> {"policy_unrecognized"}]
             ELSE [policy |-> "skip_all",
                   s |-> SessionSet(s, "existing_file_action", "skip_all"),
                   warnings |-> {"policy_unrecognized"}]
        ELSE IF policy = "case_by_case" /\ ~allow_prompts
        THEN [policy |-> "skip_all",
              s |-> SessionSet(s, "existing_file_action", "skip_all"),
              warnings |-> {"case_by_case_without_prompts"}]
        ELSE [policy |-> policy, s |-> s, warnings |-> {}]

\* The months plan_cds_months asks the overwrite question for: those with an
\* existing file, when the policy is neither skip_all nor overwrite_all.
PlanAsks(months, dir, base, policy) ==
    IF policy \in {"skip_all", "overwrite_all"} THEN <<>>
    ELSE SelectSeq(months, LAMBDA ym : ExistingMonthFiles(dir, base, ym[1], ym[2]) # {})

\* A planner that never schedules a month whose file exists.
PlanSchedulesMissingOnly(ym, dir, base, policy, overwrite) ==
    ExistingMonthFiles(dir, base, ym[1], ym[2]) = {}

\* The body of `for (y, m) in months` in plan_cds_months: TRUE when the month
\* goes to months_to_download.  `overwrite` holds the months the user answers
\* yes for at the case_by_case prompt.
PlanSchedules(ym, dir, base, policy, overwrite) ==
    IF ExistingMonthFiles(dir, base, ym[1], ym[2]) = {} THEN TRUE
    ELSE IF policy = "skip_all" THEN FALSE
    ELSE IF policy = "overwrite_all" THEN TRUE
    ELSE ym \in overwrite

\* plan_cds_months: [download, skipped, asked], all in month order; asked
\* holds the overwrite questions it put, with their answers.
plan_cds_months(s, dir, base, policy, overwrite) ==
    LET months == MonthList(Val(SessionGet(s, "start_date")),
                            Val(SessionGet(s, "end_date")))
        asks == PlanAsks(months, dir, base, policy)
    IN  [download |-> SelectSeq(months,
                        LAMBDA ym : PlanSchedules(ym, dir, base, policy, overwrite)),
         skipped |-> SelectSeq(months,
                        LAMBDA ym : ~PlanSchedules(ym, dir, base, policy, overwrite)),
         asked |-> [k \in 1..Len(asks) |->
                      [month |-> asks[k], by |-> "plan",
                       answer |-> IF asks[k] \in overwrite THEN "yes" ELSE "no"]]]

\* A merge of the planner's skipped months that is put off until the tasks
\* have run.
MergeSkippedLater(list, skipped) == list

\* for (y, m, _) in months_skipped: skipped_downloads.append((y, m))
MergeSkipped(list, skipped) == list \o skipped

\* An append that is not atomic: the slot index is read before another
\* worker's append lands, and the write goes to that worker's slot.
ListAppendOverwrites(list, x) ==
    IF list = <<>> THEN <<x>> ELSE [list EXCEPT ![Len(list)] = x]

\* list.append
ListAppend(list, x) == Append(list, x)

\* A pool one worker larger than asked for.
MaxWorkersOneMore(parallel_conf) == Max(2, parallel_conf.max_concurrent) + 1

\* max_workers = max(2, int(parallel_conf.get("max_concurrent", 2)))
MaxWorkers(parallel_conf) == Max(2, parallel_conf.max_concurrent)

\* parallel_conf = session.get("parallel_settings") or {"enabled": False, "max_concurrent": 1}
ParallelConf ==
    LET stored == SessionGet(session, "parallel_settings")
    IN  IF IsNone(stored) THEN [enabled |-> FALSE, max_concurrent |-> 1] ELSE Val(stored)

\* retry_conf = session.get("retry_settings") or {"max_retries": 6, ...}
RetryConf ==
    LET stored == SessionGet(session, "retry_settings")
    IN  IF IsNone(stored) THEN [max_retries |-> DefaultMaxRetries] ELSE Val(stored)

\* orchestrate_cds_downloads up to the choice of mode: plan the months, merge
\* the planner's skipped months into skipped_downloads, and return at once
\* when nothing is left to download.
Plan ==
    /\ rpc = "orchestrate"
    /\ LET normal == validate_existing_file_action(session, run_mode = "interactive")
           months == MonthList(Val(SessionGet(normal.s, "start_date")),
                               Val(SessionGet(normal.s, "end_date")))
           asks == PlanAsks(months, directory, FilenameBase, normal.policy)
       IN  \E overwrite \in SUBSET SeqToSet(asks) :
             LET planned == plan_cds_months(normal.s, directory, FilenameBase,
                                            normal.policy, overwrite)
                 n == Len(planned.download)
             IN
           /\ session' = normal.s
           /\ warnings' = warnings \cup normal.warnings
           /\ prompts' = prompts \o planned.asked
           /\ months_to_download' = planned.download
           /\ skipped_downloads' = MergeSkipped(skipped_downloads, planned.skipped)
           /\ tpc' = [i \in 1..n |-> "pending"]
           /\ attempt' = [i \in 1..n |-> 0]
           /\ client' = [i \in 1..n |-> None]
           /\ status' = [i \in 1..n |-> "unset"]
           /\ tries' = [i \in 1..n |-> 0]
           /\ waits' = [i \in 1..n |-> 0]
           /\ reauth' = [i \in 1..n |-> "none"]
           /\ IF n = 0
              THEN orch' = "returned" /\ rpc' = "summary"
              ELSE orch' = "running" /\ rpc' = "download"
    /\ UNCHANGED << runVars, auxVars, directory, exit_code, reported,
                    successful_downloads, failed_downloads, clientsMade >>

\* -------------------------------------------------------- the month task
\* prepare_cds_download: [outcome, s, asked, warnings].  outcome is
\* "download", "skip" or "raise" (case_by_case without prompts); `answer` is
\* the user's reply at the overwrite prompt, and asked tells whether the
\* prompt was put.
prepare_cds_download(s, dir, base, ym, allow_prompts, answer) ==
    LET policy == SessionGet(s, "existing_file_action")
        save_path == SavePathName(base, DataDownloadFormat, ym[1], ym[2])
        quiet(o) == [outcome |-> o, s |-> s, asked |-> FALSE, warnings |-> {}]
    IN  IF save_path \notin dir THEN quiet("download")
        ELSE IF policy = Some("skip_all") THEN quiet("skip")
        ELSE IF policy = Some("overwrite_all") THEN quiet("download")
        ELSE IF policy = Some("case_by_case")
        THEN IF ~allow_prompts THEN quiet("raise")
             ELSE [outcome |-> IF answer = "yes" THEN "download" ELSE "skip",
                   s |-> s, asked |-> TRUE, warnings |-> {}]
        ELSE [outcome |-> "skip",
              s |-> SessionSet(s, "existing_file_action", "skip_all"),
              asked |-> FALSE, warnings |-> {"policy_unknown"}]

\* Which list download_cds_month appends the month to.
OutcomeList(st) == IF st = "success" THEN "successful" ELSE "failed"

\* The pool takes tasks in submission order and runs at most max_workers of
\* them at a time; the sequential loop starts a month when the one before it
\* has returned.
CanStart(i) ==
    IF ParallelConf.enabled
    THEN Cardinality({j \in 1..(i - 1) : tpc[j] \notin Terminal}) < MaxWorkers(ParallelConf)
    ELSE \A j \in 1..(i - 1) : tpc[j] = "done"

\* download_cds_month up to the first retrieve: prepare_cds_download, then the
\* head of execute_cds_download.  With max_retries = 0 the retry loop has no
\* iteration, execute_cds_download falls off its end and returns None, and
\* `y, m, status = None` raises TypeError in download_cds_month.
TaskStart(i, answer) ==
    /\ rpc = "download"
    /\ tpc[i] = "pending"
    /\ CanStart(i)
    /\ LET prep == prepare_cds_download(session, directory, FilenameBase,
                                        months_to_download[i],
                                        run_mode = "interactive", answer)
           held == SessionGet(prep.s, "session_client")
       IN  /\ session' = prep.s
           /\ warnings' = warnings \cup prep.warnings
           /\ prompts' = IF prep.asked
                         THEN Append(prompts, [month |-> months_to_download[i],
                                               by |-> "task", answer |-> answer])
                         ELSE prompts
           /\ IF prep.outcome = "skip"
              THEN /\ skipped_downloads' = ListAppend(skipped_downloads, months_to_download[i])
                   /\ tpc' = [tpc EXCEPT ![i] = "done"]
                   /\ status' = [status EXCEPT ![i] = "skipped"]
                   /\ UNCHANGED << attempt, client >>
              ELSE IF prep.outcome = "raise" \/ IsNone(held)
              THEN /\ tpc' = [tpc EXCEPT ![i] = "raised"]
                   /\ UNCHANGED << skipped_downloads, status, attempt, client >>
              ELSE IF RetryConf.max_retries < 1
              THEN /\ tpc' = [tpc EXCEPT ![i] = "raised"]
                   /\ status' = [status EXCEPT ![i] = "None"]
                   /\ client' = [client EXCEPT ![i] = held]
                   /\ UNCHANGED << skipped_downloads, attempt >>
              ELSE /\ tpc' = [tpc EXCEPT ![i] = "attempt"]
                   /\ attempt' = [attempt EXCEPT ![i] = 1]
                   /\ client' = [client EXCEPT ![i] = held]
                   /\ UNCHANGED << skipped_downloads, status >>
    /\ UNCHANGED << runVars, auxVars, directory, rpc, exit_code, reported, orch,
                    months_to_download, successful_downloads, failed_downloads,
                    tries, waits, reauth, clientsMade >>

SavePath(i) ==
    SavePathName(FilenameBase, DataDownloadFormat,
                 months_to_download[i][1], months_to_download[i][2])

\* cds_client_session.retrieve(...) returns: the file is at save_path and
\* execute_cds_download returns (year, month, "success").
AttemptSuccess(i) ==
    /\ rpc = "download"
    /\ tpc[i] = "attempt"
    /\ tries' = [tries EXCEPT ![i] = @ + 1]
    /\ directory' = directory \cup {SavePath(i)}
    /\ status' = [status EXCEPT ![i] = "success"]
    /\ tpc' = [tpc EXCEPT ![i] = "append"]
    /\ reauth' = [reauth EXCEPT ![i] = "none"]
    /\ UNCHANGED << runVars, auxVars, ioVars, session, rpc, exit_code, reported, orch,
                    months_to_download, listVars, attempt, client, waits,
                    clientsMade >>

\* The comparison off by one: `attempt <= max_retries`.
MoreAttemptsInclusive(n, max_retries) == n <= max_retries

\* `if attempt < max_retries:` in the handler of a failed attempt.
MoreAttempts(n, max_retries) == n < max_retries

\* retrieve raises, having written nothing or a partial file.  Before the
\* last attempt the worker sleeps retry_delay_sec and goes on to
\* re-authenticate; after the last one it returns (year, month, "failed").
AttemptRaise(i, partial) ==
    /\ rpc = "download"
    /\ tpc[i] = "attempt"
    /\ tries' = [tries EXCEPT ![i] = @ + 1]
    /\ directory' = IF partial THEN directory \cup {SavePath(i)} ELSE directory
    /\ IF MoreAttempts(attempt[i], RetryConf.max_retries)
       THEN /\ waits' = [waits EXCEPT ![i] = @ + 1]
            /\ tpc' = [tpc EXCEPT ![i] = "reauth"]
            /\ UNCHANGED status
       ELSE /\ status' = [status EXCEPT ![i] = "failed"]
            /\ tpc' = [tpc EXCEPT ![i] = "append"]
            /\ UNCHANGED waits
    /\ reauth' = [reauth EXCEPT ![i] = "none"]
    /\ UNCHANGED << runVars, auxVars, ioVars, session, rpc, exit_code, reported, orch,
                    months_to_download, listVars, attempt, client, clientsMade >>

\* ensure_cds_connection finds the held client alive and returns it; the
\* worker stores it in the session and goes to the next attempt.
ReauthAlive(i) ==
    /\ rpc = "download"
    /\ tpc[i] = "reauth"
    /\ session' = SessionSet(session, "session_client", Val(client[i]))
    /\ reauth' = [reauth EXCEPT ![i] = "same"]
    /\ attempt' = [attempt EXCEPT ![i] = @ + 1]
    /\ tpc' = [tpc EXCEPT ![i] = "attempt"]
    /\ UNCHANGED << runVars, auxVars, ioVars, directory, rpc, exit_code, reported, orch,
                    months_to_download, listVars, client, status, tries, waits,
                    clientsMade >>

\* ensure_cds_connection finds the held client dead and constructs a new one.
ReauthNew(i) ==
    /\ rpc = "download"
    /\ tpc[i] = "reauth"
    /\ clientsMade < MaxClients
    /\ clientsMade' = clientsMade + 1
    /\ session' = SessionSet(session, "session_client", clientsMade + 1)
    /\ client' = [client EXCEPT ![i] = Some(clientsMade + 1)]
    /\ reauth' = [reauth EXCEPT ![i] = "new"]
    /\ attempt' = [attempt EXCEPT ![i] = @ + 1]
    /\ tpc' = [tpc EXCEPT ![i] = "attempt"]
    /\ UNCHANGED << runVars, auxVars, ioVars, directory, rpc, exit_code, reported, orch,
                    months_to_download, listVars, status, tries, waits >>

\* A failed re-authentication that gives the month up.
ReauthFailAborts(i) ==
    /\ rpc = "download"
    /\ tpc[i] = "reauth"
    /\ reauth' = [reauth EXCEPT ![i] = "failed"]
    /\ status' = [status EXCEPT ![i] = "failed"]
    /\ tpc' = [tpc EXCEPT ![i] = "append"]
    /\ UNCHANGED << runVars, auxVars, ioVars, session, directory, rpc, exit_code, reported, orch,
                    months_to_download, listVars, attempt, client, tries, waits,
                    clientsMade >>

\* ensure_cds_connection returns None after max_reauth_attempts (or raises):
\* the handler of the inner try logs a warning and the loop goes on.
ReauthFail(i) ==
    /\ rpc = "download"
    /\ tpc[i] = "reauth"
    /\ reauth' = [reauth EXCEPT ![i] = "failed"]
    /\ attempt' = [attempt EXCEPT ![i] = @ + 1]
    /\ tpc' = [tpc EXCEPT ![i] = "attempt"]
    /\ UNCHANGED << runVars, auxVars, ioVars, session, directory, rpc, exit_code, reported, orch,
                    months_to_download, listVars, client, status, tries, waits,
                    clientsMade >>

\* The tail of download_cds_month: append (y, m) to the list of its status.
TaskAppend(i) ==
    /\ rpc = "download"
    /\ tpc[i] = "append"
    /\ IF OutcomeList(status[i]) = "successful"
       THEN /\ successful_downloads' = ListAppend(successful_downloads, months_to_download[i])
            /\ UNCHANGED failed_downloads
       ELSE /\ failed_downloads' = ListAppend(failed_downloads, months_to_download[i])
            /\ UNCHANGED successful_downloads
    /\ tpc' = [tpc EXCEPT ![i] = "done"]
    /\ UNCHANGED << runVars, auxVars, ioVars, session, directory, rpc, exit_code, reported, orch,
                    months_to_download, skipped_downloads, attempt, client,
                    status, tries, waits, reauth, clientsMade >>

\* ------------------------------------------------- joining and returning
\* A join that ends with the first task to finish.
FirstJoined == \E i \in Tasks : tpc[i] \in Terminal

\* Parallel mode: the `with ThreadPoolExecutor` block and the as_completed
\* loop end when every future is done; a future that holds an exception is
\* never asked for its result.  Sequential mode: the for loop has called
\* download_cds_month for every month.
AllJoined == \A i \in Tasks : tpc[i] \in Terminal

OrchestrateReturn ==
    /\ rpc = "download"
    /\ AllJoined
    /\ ParallelConf.enabled \/ \A i \in Tasks : tpc[i] = "done"
    /\ orch' = "returned"
    /\ rpc' = "summary"
    /\ UNCHANGED << runVars, auxVars, ioVars, session, directory, exit_code, reported,
                    months_to_download, listVars, taskVars, clientsMade >>

\* Sequential mode: an exception of download_cds_month leaves the for loop
\* and orchestrate_cds_downloads, and run()'s `except Exception` returns 1.
RunExcept ==
    /\ rpc = "download"
    /\ ~ParallelConf.enabled
    /\ \E i \in Tasks : tpc[i] = "raised"
    /\ orch' = "raised"
    /\ reported' = Append(reported, Msg("run_failed_with_exception", {}))
    /\ exit_code' = "1"
    /\ rpc' = "returned"
    /\ UNCHANGED << runVars, auxVars, ioVars, session, directory, months_to_download, listVars,
                    taskVars, clientsMade >>

\* The end of run(): `return 2` under `if failed:`; otherwise the try block
\* ends without a return statement and run() returns None.
RunFinish ==
    /\ rpc = "summary"
    /\ exit_code' = IF failed_downloads # <<>> THEN "2" ELSE "None"
    /\ rpc' = "returned"
    /\ UNCHANGED << runVars, auxVars, ioVars, session, directory, reported, orch,
                    months_to_download, listVars, taskVars, clientsMade >>

\* The same configuration is run again over the save directory as the run
\* before left it.
Rerun ==
    /\ rpc = "returned"
    /\ runs < MaxRuns
    /\ runs' = runs + 1
    /\ previous' = [ran |-> TRUE,
                    successful |-> SeqToSet(successful_downloads),
                    failed |-> SeqToSet(failed_downloads),
                    skipped |-> SeqToSet(skipped_downloads)]
    /\ clientsMade' = 0
    /\ session' = NewSession
    /\ rpc' = "start"
    /\ exit_code' = "unset"
    /\ reported' = <<>>
    /\ orch' = "none"
    /\ months_to_download' = <<>>
    /\ successful_downloads' = <<>>
    /\ failed_downloads' = <<>>
    /\ skipped_downloads' = <<>>
    /\ tpc' = <<>> /\ attempt' = <<>> /\ client' = <<>>
    /\ status' = <<>> /\ tries' = <<>> /\ waits' = <<>> /\ reauth' = <<>>
    /\ prompts' = <<>>
    /\ warnings' = {}
    /\ UNCHANGED << auxVars, config, run_mode, directory >>

Next ==
    \/ RunStart
    \/ Plan
    \/ \E i \in Tasks, answer \in Answers : TaskStart(i, answer)
    \/ \E i \in Tasks : AttemptSuccess(i)
    \/ \E i \in Tasks, partial \in BOOLEAN : AttemptRaise(i, partial)
    \/ \E i \in Tasks : ReauthAlive(i)
    \/ \E i \in Tasks : ReauthNew(i)
    \/ \E i \in Tasks : ReauthFail(i)
    \/ \E i \in Tasks : TaskAppend(i)
    \/ OrchestrateReturn
    \/ RunExcept
    \/ RunFinish

Spec == Init /\ [][Next]_vars

\* Consecutive automatic runs of one valid configuration over one save
\* directory, under the two policies that ask no question.
InitRerun ==
    /\ Init
    /\ run_mode = "automatic"
    /\ config \in ValidConfigs
    /\ config.v.existing_file_action \in {"skip_all", "overwrite_all"}
    /\ config.v.parallel_settings.max_concurrent <= 2
    /\ directory \in {{}, {LegacyFile}}

NextRerun == Next \/ Rerun

SpecRerun == InitRerun /\ [][NextRerun]_vars

\* ------------------------------------------------------- the library calls
\* map_config_to_session and orchestrate_cds_downloads called by a caller
\* other than run(): the configuration has not been through validate_config,
\* and run_mode stands for the caller's allow_prompts.
CallDates ==
    { <<StartDate, EndDateFor(1)>>,
      <<StartDate, EndDateFor(2)>>,
      << <<2020, 12, 31>>, <<2021, 1, 1>> >>,     \* over the turn of the year
      << <<2025, 5, 15>>, <<2025, 7, 20>> >>,     \* end clamped, still after start
      << <<2025, 6, 10>>, <<2025, 6, 20>> >>,     \* start after the boundary
      <<StartDate, <<2020, 1, 1>>>> }             \* end before start

CallRetrySettings ==
    { [max_retries |-> 1], [max_retries |-> 2], [max_retries |-> -1],
      NotAMapping, TextInMapping }

CallParallelSettings ==
    { [enabled |-> FALSE, max_concurrent |-> 1],
      [enabled |-> TRUE, max_concurrent |-> 2],
      NotAMapping, TextInMapping }

CallConfigs ==
    { [keys |-> ConfigKeys,
       v |-> [BaseValues EXCEPT !.start_date = d[1],
                                !.end_date = d[2],
                                !.existing_file_action = efa,
                                !.retry_settings = r,
                                !.parallel_settings = par]] :
        d \in CallDates, efa \in ExistingFileActions \cup {"replace"},
        r \in CallRetrySettings, par \in CallParallelSettings }

InitCalls ==
    /\ config \in CallConfigs
    /\ run_mode \in RunModes
    /\ directory \in InitialDirectories
    /\ clientsMade = 0
    /\ runs = 1
    /\ previous = NoPrevious
    /\ wizard = NoWizard
    /\ lib = NoCall
    /\ session = NewSession
    /\ rpc = "call"
    /\ exit_code = "unset"
    /\ reported = <<>>
    /\ orch = "none"
    /\ months_to_download = <<>>
    /\ successful_downloads = <<>>
    /\ failed_downloads = <<>>
    /\ skipped_downloads = <<>>
    /\ tpc = <<>> /\ attempt = <<>> /\ client = <<>>
    /\ status = <<>> /\ tries = <<>> /\ waits = <<>> /\ reauth = <<>>
    /\ prompts = <<>>
    /\ warnings = {}

\* map_config_to_session(config, SessionState()): the session is written in
\* place, so what was set before an exception stays set.  rpc becomes
\* "raised" when an exception leaves the function, "rejected" when it returns
\* (False, messages), and "orchestrate" when it returns (True, messages) and
\* the caller goes on to orchestrate_cds_downloads.
CallMap ==
    /\ rpc = "call"
    /\ LET mapped == map_config_to_session(config, NewSession, AvailabilityBoundary)
       IN  /\ session' = mapped.s
           /\ clientsMade' = IF "session_client" \in config.keys
                             THEN clientsMade
                             ELSE IF IsNone(SessionGet(mapped.s, "session_client"))
                             THEN 0 ELSE FirstClient
           /\ reported' = IF mapped.raised # "none"
                          THEN <<Msg(mapped.raised, {})>> ELSE mapped.errors
           /\ rpc' = IF mapped.raised # "none" THEN "raised"
                     ELSE IF mapped.ok THEN "orchestrate" ELSE "rejected"
           /\ lib' = [fn |-> "map_config_to_session", filtered |-> mapped.filtered]
    /\ UNCHANGED << runVars, wizard, ioVars, directory, exit_code, orch,
                    months_to_download, listVars, taskVars >>

NextCalls ==
    \/ CallMap
    \/ Plan
    \/ \E i \in Tasks, answer \in Answers : TaskStart(i, answer)
    \/ \E i \in Tasks : AttemptSuccess(i)
    \/ \E i \in Tasks, partial \in BOOLEAN : AttemptRaise(i, partial)
    \/ \E i \in Tasks : ReauthAlive(i)
    \/ \E i \in Tasks : ReauthNew(i)
    \/ \E i \in Tasks : ReauthFail(i)
    \/ \E i \in Tasks : TaskAppend(i)
    \/ OrchestrateReturn

SpecCalls == InitCalls /\ [][NextCalls]_vars

\* ------------------------------------------------ the library functions
\* The functions of data_validation.py and file_management.py called on
\* their own: every call records its name, its arguments and what it
\* returned, until the caller is done with the result.  The session and the
\* run stay as constructed.
\* The clock of a call: today's date.
Todays == { <<2025, 6, 9>>, <<2024, 3, 7>>, <<2025, 1, 3>> }

\* End dates on both sides of every boundary: one year back, the days around
\* the boundary, today and tomorrow.
ClampEnds ==
    { <<y, m, d>> : y \in {2024, 2025}, m \in {1, 2, 3, 5, 6, 12},
                    d \in {1, 2, 4, 9, 10, 26, 27, 28} }

\* No run is in progress.
NoRun ==
    /\ config \in {[keys |-> ConfigKeys, v |-> BaseValues]}
    /\ run_mode = "automatic"
    /\ directory = {}
    /\ clientsMade = 0
    /\ runs = 1
    /\ previous = NoPrevious
    /\ wizard = NoWizard
    /\ lib = NoCall
    /\ session = NewSession
    /\ exit_code = "unset"
    /\ reported = <<>>
    /\ orch = "none"
    /\ months_to_download = <<>>
    /\ successful_downloads = <<>>
    /\ failed_downloads = <<>>
    /\ skipped_downloads = <<>>
    /\ tpc = <<>> /\ attempt = <<>> /\ client = <<>>
    /\ status = <<>> /\ tries = <<>> /\ waits = <<>> /\ reauth = <<>>
    /\ prompts = <<>>
    /\ warnings = {}

InitLib == NoRun /\ rpc = "library"

libFrame ==
    << config, run_mode, session, directory, rpc, exit_code, reported, orch,
       months_to_download, listVars, taskVars, clientsMade, runs, previous,
       ioVars, wizard >>

\* clamp_era5_available_end_date(end) called while the clock shows `today`.
CallClamp(end, today) ==
    /\ rpc = "library"
    /\ lib = NoCall
    /\ lib' = [fn |-> "clamp_era5_available_end_date", end |-> end, today |-> today,
               again |-> FALSE,
               result |-> clamp_era5_available_end_date(end, AvailabilityUpper(today))]
    /\ UNCHANGED libFrame

\* The result of the last clamp handed to the clamp once more, the clock
\* unchanged.
CallClampAgain ==
    /\ rpc = "library"
    /\ lib.fn = "clamp_era5_available_end_date"
    /\ ~lib.again
    /\ lib' = [fn |-> "clamp_era5_available_end_date", end |-> lib.result,
               today |-> lib.today, again |-> TRUE,
               result |-> clamp_era5_available_end_date(lib.result,
                                                        AvailabilityUpper(lib.today))]
    /\ UNCHANGED libFrame

\* Degrees on both sides of every limit.
Latitudes == {-91, -90, -10, 0, 10, 90, 91}
Longitudes == {-200, -181, -180, 0, 20, 180, 181}

CallValidateCoordinates(north, west, south, east) ==
    /\ rpc = "library"
    /\ lib = NoCall
    /\ lib' = [fn |-> "validate_coordinates",
               north |-> north, west |-> west, south |-> south, east |-> east,
               result |-> validate_coordinates(north, west, south, east)]
    /\ UNCHANGED libFrame

\* sorted(variables): the names in the order of Python's string comparison,
\* given by their rank among the names the calls use.
VariableRank ==
    [ v \in {"2m_temperature", "snowfall", "total_precipitation"} |->
        CASE v = "2m_temperature" -> 1
          [] v = "snowfall" -> 2
          [] v = "total_precipitation" -> 3 ]

VariableNames == DOMAIN VariableRank

\* One name put into a sorted list, after the names that are not above it.
RECURSIVE InsertSorted(_, _)
InsertSorted(x, sorted) ==
    IF sorted = <<>> THEN <<x>>
    ELSE IF VariableRank[x] < VariableRank[Head(sorted)] THEN <<x>> \o sorted
    ELSE <<Head(sorted)>> \o InsertSorted(x, Tail(sorted))

RECURSIVE Sorted(_)
Sorted(variables) ==
    IF variables = <<>> THEN <<>>
    ELSE InsertSorted(Head(variables), Sorted(Tail(variables)))

\* hashlib.md5(param_string.encode()).hexdigest()[:12]: a value fixed by the
\* text it digests.
Md5Hex12(text) == [md5_12 |-> text]

\* The hash of the parameters as they come, the variables not sorted.
generate_filename_hash_unsorted(dataset_short_name, variables, boundaries) ==
    Md5Hex12(<<dataset_short_name, "|", variables, "|", boundaries>>)

\* param_string = f"{dataset_short_name}|{sorted(variables)}|{boundaries}"
generate_filename_hash(dataset_short_name, variables, boundaries) ==
    Md5Hex12(<<dataset_short_name, "|", Sorted(variables), "|", boundaries>>)

\* The variable lists of the calls: one to three names, repeats included.
MaxVariables == 3
VariableLists ==
    UNION { [1..n -> VariableNames] : n \in 1..MaxVariables }

BoundsInputs == { <<10, 0, 0, 20>>, <<20, 0, 10, 20>> }

\* The lists that hold the names of `variables` in another order.
Reorderings(variables) ==
    { q \in [1..Len(variables) -> VariableNames] :
        \E f \in [1..Len(variables) -> 1..Len(variables)] :
            /\ \A i, j \in 1..Len(variables) : i # j => f[i] # f[j]
            /\ \A i \in 1..Len(variables) : q[i] = variables[f[i]] }

CallHash(ds, variables, bounds) ==
    /\ rpc = "library"
    /\ lib = NoCall
    /\ lib' = [fn |-> "generate_filename_hash", dataset_short_name |-> ds,
               variables |-> variables, boundaries |-> bounds,
               reordered |-> FALSE, before |-> None,
               result |-> generate_filename_hash(ds, variables, bounds)]
    /\ UNCHANGED libFrame

\* A second call with the same dataset and bounds and the variables of the
\* first call in another order; `before` keeps what the first call returned.
CallHashReordered(variables) ==
    /\ rpc = "library"
    /\ lib.fn = "generate_filename_hash"
    /\ ~lib.reordered
    /\ variables \in Reorderings(lib.variables)
    /\ lib' = [lib EXCEPT !.variables = variables, !.reordered = TRUE,
                          !.before = Some(lib.result),
                          !.result = generate_filename_hash(lib.dataset_short_name,
                                                            variables, lib.boundaries)]
    /\ UNCHANGED libFrame

\* The caller is done with the result of the last call.
LibReturn ==
    /\ rpc = "library"
    /\ lib # NoCall
    /\ lib' = NoCall
    /\ UNCHANGED libFrame

NextLib ==
    \/ \E end \in ClampEnds, today \in Todays : CallClamp(end, today)
    \/ CallClampAgain
    \/ \E north \in Latitudes, west \in Longitudes,
          south \in Latitudes, east \in Longitudes :
            CallValidateCoordinates(north, west, south, east)
    \/ \E ds \in CdsDatasets, variables \in VariableLists, bounds \in BoundsInputs :
            CallHash(ds, variables, bounds)
    \/ \E variables \in VariableLists : CallHashReordered(variables)
    \/ LibReturn

SpecLib == InitLib /\ [][NextLib]_vars

\* ------------------------------------------------- SessionState on its own
\* A SessionState object under arbitrary calls of set, unset and
\* first_unfilled_key, keys that are no declared field included.
\* The scan in declaration order, begun at the second field.
first_unfilled_after_first(s) ==
    LET unfilled == {i \in 2..Len(FieldOrder) : ~s[FieldOrder[i]].filled}
    IN  IF unfilled = {} THEN None
        ELSE Some(FieldOrder[CHOOSE i \in unfilled : \A j \in unfilled : i <= j])

\* for key, entry in self.fields.items(): if not entry["filled"]: return key
RECURSIVE FirstUnfilledFrom(_, _)
FirstUnfilledFrom(s, i) ==
    IF i > Len(FieldOrder) THEN None
    ELSE IF ~s[FieldOrder[i]].filled THEN Some(FieldOrder[i])
    ELSE FirstUnfilledFrom(s, i + 1)

\* SessionState.first_unfilled_key
first_unfilled_key(s) == FirstUnfilledFrom(s, 1)

\* The keys of the calls: every declared field and one name that is none.
CallKeys == Fields \cup {"region"}

InitSession == NoRun /\ rpc = "session"

sessionFrame ==
    << config, run_mode, directory, rpc, exit_code, reported, orch,
       months_to_download, listVars, taskVars, clientsMade, runs, previous,
       ioVars, wizard >>

SessionSetCall(key) ==
    /\ rpc = "session"
    /\ lib = NoCall
    /\ session' = SessionSet(session, key, "value")
    /\ lib' = [fn |-> "SessionState.set", key |-> key]
    /\ UNCHANGED sessionFrame

SessionUnsetCall(key) ==
    /\ rpc = "session"
    /\ lib = NoCall
    /\ session' = SessionUnset(session, key)
    /\ lib' = [fn |-> "SessionState.unset", key |-> key]
    /\ UNCHANGED sessionFrame

FirstUnfilledCall ==
    /\ rpc = "session"
    /\ lib = NoCall
    /\ lib' = [fn |-> "SessionState.first_unfilled_key",
               result |-> first_unfilled_key(session)]
    /\ UNCHANGED << session, sessionFrame >>

SessionReturn ==
    /\ rpc = "session"
    /\ lib # NoCall
    /\ lib' = NoCall
    /\ UNCHANGED << session, sessionFrame >>

NextSession ==
    \/ \E key \in CallKeys : SessionSetCall(key)
    \/ \E key \in CallKeys : SessionUnsetCall(key)
    \/ FirstUnfilledCall
    \/ SessionReturn

SpecSession == InitSession /\ [][NextSession]_vars

\* ------------------------------------------------------- the prompt wizard
\* main() without --config: run_prompt_wizard fills a SessionState prompt by
\* prompt, and when it reports completion main() hands session.to_dict() to
\* run().  One action is one pass of the wizard's `while True` loop: the
\* prompt of the first unfilled key, up to the value it stores or the control
\* word it returns (a prompt keeps asking until the answer is usable).
\* The two copies of cli.py.
WizardCopies == {"legacy", "packaged"}

\* What the user does at a prompt: types "exit", types "back", or gives a
\* value the prompt takes.
Inputs == {"exit", "back", "value"}

\* Keys the user has for the api, one of them accepted by the remote side.
WizardApiKeys == {"good-key", "bad-key"}

\* Regions the user enters at prompt_coordinates, as (north, west, south, east).
WizardBounds == { <<10, 0, 0, 5>>, <<10, 0, 0, 20>>, <<10, 0, 20, 5>> }

WizardParallel ==
    { [enabled |-> FALSE, max_concurrent |-> 1],
      [enabled |-> TRUE, max_concurrent |-> 2] }

\* Retries entered by hand (any integer >= 0 is taken); the delay is the default.
WizardRetries == { [max_retries |-> r, retry_delay_sec |-> 15] : r \in {0, 2} }

\* The keys for which the loop body of a copy reaches a prompt, the provider
\* being "cds".  In the packaged copy the branch
\* `elif session.get("data_provider") == "cds":` is part of the one if/elif
\* chain and is taken for every key after dataset_short_name, so the
\* branches after it are never reached; neither copy has a branch for
\* session_client, and the branch of end_date is a bare `continue`.
PromptedKeys(copy) ==
    IF copy = "packaged"
    THEN {"data_provider", "dataset_short_name", "api_url", "api_key"}
    ELSE Fields \ {"session_client", "end_date"}

InitWizard ==
    /\ config \in {[keys |-> ConfigKeys, v |-> BaseValues]}
    /\ run_mode = "interactive"
    /\ directory \in InitialDirectories
    /\ clientsMade = 0
    /\ runs = 1
    /\ previous = NoPrevious
    /\ wizard \in {[copy |-> c, pc |-> "loop", answer |-> "none", selection |-> "none"] :
                      c \in WizardCopies}
    /\ lib = NoCall
    /\ session = NewSession
    /\ rpc = "wizard"
    /\ exit_code = "unset"
    /\ reported = <<>>
    /\ orch = "none"
    /\ months_to_download = <<>>
    /\ successful_downloads = <<>>
    /\ failed_downloads = <<>>
    /\ skipped_downloads = <<>>
    /\ tpc = <<>> /\ attempt = <<>> /\ client = <<>>
    /\ status = <<>> /\ tries = <<>> /\ waits = <<>> /\ reauth = <<>>
    /\ prompts = <<>>
    /\ warnings = {}

wizardFrame ==
    << config, run_mode, directory, rpc, exit_code, reported, orch,
       months_to_download, listVars, taskVars, runs, previous, ioVars, lib >>

\* key = session.first_unfilled_key() at the top of the loop.
WizardKey == first_unfilled_key(session)

AtPrompt(key) ==
    /\ rpc = "wizard"
    /\ wizard.pc = "loop"
    /\ WizardKey = Some(key)
    /\ key \in PromptedKeys(wizard.copy)

\* `return False` on "__EXIT__".
WizardExit == wizard' = [wizard EXCEPT !.pc = "returned_false"]

\* A prompt that stores `value` under `key`, or returns a control word:
\* "exit" ends the wizard, "back" unsets the fields in `undo`.
SimplePrompt(key, input, value, undo) ==
    /\ AtPrompt(key)
    /\ IF input = "exit"
       THEN WizardExit /\ UNCHANGED session
       ELSE /\ UNCHANGED wizard
            /\ session' = IF input = "back" THEN undo
                          ELSE SessionSet(session, key, value)
    /\ UNCHANGED << wizardFrame, clientsMade >>

\* prompt_data_provider stores "cds" only; "back" just asks again.
WizDataProvider(input) ==
    SimplePrompt("data_provider", input, "cds", session)

\* prompt_dataset_short_name stores "era5-world" only.
WizDataset(input) ==
    SimplePrompt("dataset_short_name", input, "era5-world",
                 SessionUnset(session, "data_provider"))

WizApiUrl(input) ==
    SimplePrompt("api_url", input, "https://cds.climate.copernicus.eu/api",
                 SessionUnset(session, "dataset_short_name"))

\* prompt_cds_api_key, then validate_cds_api_key with the url and key of the
\* session: a client that is None unsets both and asks again, any other is
\* stored as session_client.
WizApiKey(input, key) ==
    /\ AtPrompt("api_key")
    /\ IF input = "exit"
       THEN WizardExit /\ UNCHANGED << session, clientsMade >>
       ELSE IF input = "back"
       THEN /\ session' = SessionUnset(session, "api_url")
            /\ UNCHANGED << wizard, clientsMade >>
       ELSE IF key \notin AcceptedKeys
       THEN /\ session' = SessionUnset(SessionUnset(SessionSet(session, "api_key", key),
                                                    "api_key"), "api_url")
            /\ UNCHANGED << wizard, clientsMade >>
       ELSE /\ clientsMade < MaxClients
            /\ clientsMade' = clientsMade + 1
            /\ session' = SessionSet(SessionSet(session, "api_key", key),
                                     "session_client", clientsMade + 1)
            /\ UNCHANGED wizard
    /\ UNCHANGED wizardFrame

WizSaveDir(input) ==
    SimplePrompt("save_dir", input, "data/raw",
                 SessionUnset(SessionUnset(session, "session_client"), "api_key"))

\* prompt_date_range stores start_date and end_date, the end clamped.
WizDates(input) ==
    /\ AtPrompt("start_date")
    /\ IF input = "exit"
       THEN WizardExit /\ UNCHANGED session
       ELSE /\ UNCHANGED wizard
            /\ session' =
                 IF input = "back"
                 THEN SessionUnset(session, IF wizard.copy = "legacy" THEN "save_dir"
                                            ELSE "dataset_short_name")
                 ELSE SessionSet(SessionSet(session, "start_date", StartDate), "end_date",
                                 clamp_era5_available_end_date(EndDateFor(1),
                                                               AvailabilityBoundary))
    /\ UNCHANGED << wizardFrame, clientsMade >>

\* prompt_coordinates takes the four numbers when
\* validate_coordinates(n, s, e, w) passes: the call gives south in the place
\* of west, east in the place of south and west in the place of east.
WizBounds(input, b) ==
    /\ input = "value" => validate_coordinates(b[1], b[3], b[4], b[2])
    /\ SimplePrompt("region_bounds", input, b,
                    SessionUnset(SessionUnset(session, "start_date"), "end_date"))

\* What the user types at "Confirm selection? (y/n)".
SelectionAnswers == {"yes", "no", "exit", "back"}

\* An unknown dataset raises ValueError before prompt_variables is called.
\* prompt_variables reads the names and then asks "Confirm selection? (y/n)":
\* only yes stores the list; anything else typed there, the control words
\* included, is answered with "Let's try again" and the names are asked
\* again (wizard.selection keeps what was typed).
WizVariables(input, confirm) ==
    /\ AtPrompt("variables")
    /\ IF SessionGet(session, "dataset_short_name") \in {Some("era5-world"), Some("era5-land")}
       THEN IF input = "exit"
            THEN WizardExit /\ UNCHANGED session
            ELSE IF input = "back"
            THEN /\ session' = SessionUnset(session, "region_bounds")
                 /\ UNCHANGED wizard
            ELSE /\ wizard' = [wizard EXCEPT !.selection = confirm]
                 /\ session' = IF confirm = "yes"
                               THEN SessionSet(session, "variables", <<"2m_temperature">>)
                               ELSE session
       ELSE /\ wizard' = [wizard EXCEPT !.pc = "raised"]
            /\ UNCHANGED session
    /\ UNCHANGED << wizardFrame, clientsMade >>

WizPolicy(input, efa) ==
    SimplePrompt("existing_file_action", input, efa,
                 SessionUnset(session, "variables"))

WizParallel(input, settings) ==
    SimplePrompt("parallel_settings", input, settings,
                 SessionUnset(session, "existing_file_action"))

WizRetry(input, settings) ==
    SimplePrompt("retry_settings", input, settings,
                 SessionUnset(session, "parallel_settings"))

\* prompt_continue_confirmation returns True on yes and False on no; the
\* wizard tests the result against the two control words only, and what is
\* neither of them goes on to session.set("inputs_confirmed", True).
WizConfirm(input, answer) ==
    /\ AtPrompt("inputs_confirmed")
    /\ IF input = "exit"
       THEN /\ wizard' = [wizard EXCEPT !.pc = "returned_false", !.answer = "exit"]
            /\ UNCHANGED session
       ELSE IF input = "back"
       THEN /\ wizard' = [wizard EXCEPT !.answer = "back"]
            /\ session' = SessionUnset(session, "parallel_settings")
       ELSE /\ wizard' = [wizard EXCEPT !.answer = answer]
            /\ session' = SessionSet(session, "inputs_confirmed", TRUE)
    /\ UNCHANGED << wizardFrame, clientsMade >>

\* The first unfilled key has no prompt in this copy: the loop body changes
\* nothing and the loop goes round on the same key for ever.
WizNoBranch ==
    /\ rpc = "wizard"
    /\ wizard.pc = "loop"
    /\ ~IsNone(WizardKey)
    /\ Val(WizardKey) \notin PromptedKeys(wizard.copy)
    /\ wizard' = [wizard EXCEPT !.pc = "hung"]
    /\ UNCHANGED << session, wizardFrame, clientsMade >>

\* `if key is None: return True`
WizReturn ==
    /\ rpc = "wizard"
    /\ wizard.pc = "loop"
    /\ IsNone(WizardKey)
    /\ wizard' = [wizard EXCEPT !.pc = "returned_true"]
    /\ UNCHANGED << session, wizardFrame, clientsMade >>

\* session.to_dict(): every field with its value.
to_dict(s) ==
    [keys |-> Fields, v |-> [k \in Fields |-> Val(s[k].value)]]

\* main(): `completed` is True, so config = session.to_dict() and
\* run(config, run_mode="interactive") starts.
MainRun ==
    /\ rpc = "wizard"
    /\ wizard.pc = "returned_true"
    /\ config' = to_dict(session)
    /\ rpc' = "start"
    /\ UNCHANGED << wizard, lib, session, run_mode, directory, exit_code, reported, orch,
                    months_to_download, listVars, taskVars, clientsMade, runs,
                    previous, ioVars >>

NextWizard ==
    \/ \E input \in Inputs : WizDataProvider(input)
    \/ \E input \in Inputs : WizDataset(input)
    \/ \E input \in Inputs : WizApiUrl(input)
    \/ \E input \in Inputs, key \in WizardApiKeys : WizApiKey(input, key)
    \/ \E input \in Inputs : WizSaveDir(input)
    \/ \E input \in Inputs : WizDates(input)
    \/ \E input \in Inputs, b \in WizardBounds : WizBounds(input, b)
    \/ \E input \in Inputs, confirm \in SelectionAnswers : WizVariables(input, confirm)
    \/ \E input \in Inputs, efa \in ExistingFileActions : WizPolicy(input, efa)
    \/ \E input \in Inputs, settings \in WizardParallel : WizParallel(input, settings)
    \/ \E input \in Inputs, settings \in WizardRetries : WizRetry(input, settings)
    \/ \E input \in Inputs, answer \in Answers : WizConfirm(input, answer)
    \/ WizNoBranch
    \/ WizReturn
    \/ MainRun
    \/ Next

SpecWizard == InitWizard /\ [][NextWizard]_vars

\* ------------------------------------------------- validating and mapping
\* run() up to the mapped session, and map_config_to_session called on its
\* own, over configurations that differ in their dataset, variables, retry
\* settings and parallel settings and in whether they carry a session_client
\* of their own.
\* The value a configuration holds under "session_client": not a client that
\* an authentication constructed (those are numbered from FirstClient on).
ForeignClient == 0

SetupRetryCounts == {-1, 0, 6, 20, 21, 50}
SetupDelays == {-1, 0, 15, 3600, 3601}

\* Retry settings with both entries, and with one of them left out.
SetupRetrySettings ==
    { [max_retries |-> r, retry_delay_sec |-> d] :
        r \in SetupRetryCounts, d \in SetupDelays }
      \cup { [max_retries |-> r] : r \in SetupRetryCounts }
      \cup { [retry_delay_sec |-> d] : d \in SetupDelays }

SetupConcurrency == {-3, 0, 1, 2, 5, 8, 9, 100}

SetupParallelSettings ==
    { [enabled |-> e, max_concurrent |-> mc] : e \in BOOLEAN, mc \in SetupConcurrency }

\* Variable lists of one or two names: a name on no deny-list, one on the
\* era5-world list and one on the era5-land list.
SetupVariableNames == {"2m_temperature", "snowfall", "geopotential"}
SetupVariables ==
    { <<>> }
      \cup { <<a>> : a \in SetupVariableNames }
      \cup { <<a, b>> : a \in SetupVariableNames, b \in SetupVariableNames }

SetupConfigs ==
    { [keys |-> IF own THEN ConfigKeys \cup {"session_client"} ELSE ConfigKeys,
       v |-> [BaseValues EXCEPT !.dataset_short_name = ds,
                                !.variables = variables,
                                !.retry_settings = r,
                                !.parallel_settings = par,
                                !.session_client = ForeignClient]] :
        own \in BOOLEAN, ds \in CdsDatasets, variables \in SetupVariables,
        r \in SetupRetrySettings, par \in SetupParallelSettings }

\* Either run(config) is about to start or the mapper is about to be called.
InitSetup ==
    /\ config \in SetupConfigs
    /\ run_mode = "automatic"
    /\ directory = {}
    /\ clientsMade = 0
    /\ runs = 1
    /\ previous = NoPrevious
    /\ wizard = NoWizard
    /\ lib = NoCall
    /\ session = NewSession
    /\ rpc \in {"start", "call"}
    /\ exit_code = "unset"
    /\ reported = <<>>
    /\ orch = "none"
    /\ months_to_download = <<>>
    /\ successful_downloads = <<>>
    /\ failed_downloads = <<>>
    /\ skipped_downloads = <<>>
    /\ tpc = <<>> /\ attempt = <<>> /\ client = <<>>
    /\ status = <<>> /\ tries = <<>> /\ waits = <<>> /\ reauth = <<>>
    /\ prompts = <<>>
    /\ warnings = {}

NextSetup ==
    \/ RunStart
    \/ CallMap

SpecSetup == InitSetup /\ [][NextSetup]_vars

\* ------------------------------------------- the planner, question by question
\* plan_cds_months followed month by month through its `for (y, m) in months`
\* loop, in an interactive run under case_by_case, so that every line the
\* user types at "Overwrite this one? (y/n)" is a step.  lib holds the
\* planner's local state: the index k of the month examined, the two lists
\* it builds, and whether read_input has returned "__EXIT__".
PlannerInputs == {"yes", "no", "__EXIT__", "__BACK__"}

InitAsk ==
    /\ Init
    /\ run_mode = "interactive"
    /\ config \in ValidConfigs
    /\ config.v.existing_file_action = "case_by_case"
    /\ ~config.v.parallel_settings.enabled

PlannerMonths ==
    MonthList(Val(SessionGet(session, "start_date")), Val(SessionGet(session, "end_date")))

\* plan_cds_months is entered: policy = validate_existing_file_action(...).
PlanEnter ==
    /\ rpc = "orchestrate"
    /\ lib = NoCall
    /\ LET normal == validate_existing_file_action(session, run_mode = "interactive")
       IN  /\ session' = normal.s
           /\ warnings' = warnings \cup normal.warnings
           /\ lib' = [fn |-> "plan_cds_months", policy |-> normal.policy, k |-> 1,
                      download |-> <<>>, skipped |-> <<>>, exited |-> FALSE]
    /\ rpc' = "planning"
    /\ UNCHANGED << runVars, wizard, directory, exit_code, reported, orch,
                    months_to_download, listVars, taskVars, clientsMade, prompts >>

AtMonth ==
    /\ rpc = "planning"
    /\ lib.k <= Len(PlannerMonths)

planFrame ==
    << runVars, wizard, session, directory, rpc, exit_code, reported, orch,
       months_to_download, listVars, taskVars, clientsMade, warnings >>

\* A month for which no question is put: no file exists, or the policy
\* decides.
PlanQuiet ==
    /\ AtMonth
    /\ LET ym == PlannerMonths[lib.k]
       IN  /\ ym \notin SeqToSet(PlanAsks(PlannerMonths, directory, FilenameBase, lib.policy))
           /\ lib' = IF PlanSchedules(ym, directory, FilenameBase, lib.policy, {})
                     THEN [lib EXCEPT !.k = @ + 1, !.download = Append(@, ym)]
                     ELSE [lib EXCEPT !.k = @ + 1, !.skipped = Append(@, ym)]
    /\ UNCHANGED << planFrame, prompts >>

\* One pass of `while True`: read_input, then the answer is looked up in
\* NORMALIZATION_MAP["confirmation"]; what is not found there, the control
\* tokens included, gets "Please enter 'y' or 'n'." and the question again.
PlanAnswer(input) ==
    /\ AtMonth
    /\ LET ym == PlannerMonths[lib.k]
       IN  /\ ym \in SeqToSet(PlanAsks(PlannerMonths, directory, FilenameBase, lib.policy))
           /\ prompts' = IF input \in Answers
                         THEN Append(prompts, [month |-> ym, by |-> "plan", answer |-> input])
                         ELSE prompts
           /\ lib' = IF input = "yes"
                     THEN [lib EXCEPT !.k = @ + 1, !.download = Append(@, ym)]
                     ELSE IF input = "no"
                     THEN [lib EXCEPT !.k = @ + 1, !.skipped = Append(@, ym)]
                     ELSE [lib EXCEPT !.exited = @ \/ input = "__EXIT__"]
    /\ UNCHANGED planFrame

\* plan_cds_months returns and orchestrate_cds_downloads goes on as in Plan.
PlanLeave ==
    /\ rpc = "planning"
    /\ lib.k > Len(PlannerMonths)
    /\ LET n == Len(lib.download)
       IN  /\ months_to_download' = lib.download
           /\ skipped_downloads' = MergeSkipped(skipped_downloads, lib.skipped)
           /\ tpc' = [i \in 1..n |-> "pending"]
           /\ attempt' = [i \in 1..n |-> 0]
           /\ client' = [i \in 1..n |-> None]
           /\ status' = [i \in 1..n |-> "unset"]
           /\ tries' = [i \in 1..n |-> 0]
           /\ waits' = [i \in 1..n |-> 0]
           /\ reauth' = [i \in 1..n |-> "none"]
           /\ IF n = 0
              THEN orch' = "returned" /\ rpc' = "summary"
              ELSE orch' = "running" /\ rpc' = "download"
    /\ UNCHANGED << runVars, auxVars, ioVars, session, directory, exit_code, reported,
                    successful_downloads, failed_downloads, clientsMade >>

NextAsk ==
    \/ RunStart
    \/ PlanEnter
    \/ PlanQuiet
    \/ \E input \in PlannerInputs : PlanAnswer(input)
    \/ PlanLeave
    \/ \E i \in Tasks, answer \in Answers : TaskStart(i, answer)
    \/ \E i \in Tasks : AttemptSuccess(i)
    \/ \E i \in Tasks, partial \in BOOLEAN : AttemptRaise(i, partial)
    \/ \E i \in Tasks : ReauthAlive(i)
    \/ \E i \in Tasks : ReauthNew(i)
    \/ \E i \in Tasks : ReauthFail(i)
    \/ \E i \in Tasks : TaskAppend(i)
    \/ OrchestrateReturn
    \/ RunExcept
    \/ RunFinish

SpecAsk == InitAsk /\ [][NextAsk]_vars

\* ------------------------------------------------------------- progress
\* run() under the condition that the program keeps running: every remote
\* call returns or raises, every started thread is scheduled, and the user
\* answers the questions put.  As long as a step of run() is possible, a
\* step is taken.  The runs are automatic runs of valid configurations.
InitLive ==
    /\ Init
    /\ run_mode = "automatic"
    /\ config \in ValidConfigs

SpecLive == InitLive /\ [][Next]_vars /\ WF_vars(Next)

\* ====================================================================
\* Properties
\* ====================================================================
MaxRetries == RetryConf.max_retries

\* Retrieve calls made in the run in progress.
RECURSIVE SumTo(_, _)
SumTo(f, n) == IF n = 0 THEN 0 ELSE f[n] + SumTo(f, n - 1)
TotalTries == SumTo(tries, Len(tries))

\* C1: a month whose retrieve call has raised on every attempt makes exactly
\* max_retries = N >= 1 attempts, sleeps exactly N - 1 times, never after the
\* final attempt, and ends with status "failed".
C1_RetryExhaustion ==
    \A i \in Tasks :
        (MaxRetries >= 1 /\ status[i] \notin {"success", "skipped"}) =>
            /\ tries[i] <= MaxRetries
            /\ waits[i] = (IF tries[i] = MaxRetries THEN MaxRetries - 1 ELSE tries[i])
            /\ (tpc[i] \in {"append", "done"} =>
                    status[i] = "failed" /\ tries[i] = MaxRetries)
            /\ (tries[i] = MaxRetries => tpc[i] \in {"append", "done"})

C1_Witness ==
    \E i \in Tasks :
        /\ MaxRetries >= 2
        /\ tpc[i] = "done"
        /\ status[i] = "failed"
        /\ tries[i] = MaxRetries
        /\ waits[i] = MaxRetries - 1

\* C2: for every max_retries >= 0 a month handed to execute_cds_download gets
\* a status in {"success", "failed"} and is appended to successful_downloads
\* or to failed_downloads.
C2_StatusAlwaysReturned ==
    \A i \in Tasks :
        (tpc[i] \in Terminal /\ status[i] # "skipped") =>
            /\ status[i] \in {"success", "failed"}
            /\ months_to_download[i] \in
                   SeqToSet(successful_downloads) \cup SeqToSet(failed_downloads)

\* C3: a failed re-authentication does not abort the retry loop: it comes
\* after the wait for the failed attempt, the next attempt follows, the
\* worker keeps the client it held, and session_client is left as it was.
C3_ReauthFailureGoesOn ==
    [][\A i \in Tasks :
          (tpc[i] = "reauth" /\ tpc'[i] # "reauth" /\ reauth'[i] = "failed") =>
              /\ waits[i] = attempt[i]
              /\ attempt[i] < MaxRetries
              /\ tpc'[i] = "attempt"
              /\ attempt'[i] = attempt[i] + 1
              /\ client'[i] = client[i]
              /\ SessionGet(session', "session_client") = SessionGet(session, "session_client")
              /\ status'[i] = "unset"]_vars

C3_Witness ==
    \E i \in Tasks :
        /\ tpc[i] = "attempt"
        /\ reauth[i] = "failed"
        /\ attempt[i] = 2
        /\ client[i] = SessionGet(session, "session_client")

\* C4: an exception that escapes download_cds_month counts as a failure of
\* that month: the month is in failed_downloads, the other planned months
\* have run, and run() has not returned 1.
C4_EscapedExceptionIsMonthFailure ==
    (rpc = "returned" /\ \E i \in Tasks : tpc[i] = "raised") =>
        /\ \A i \in Tasks :
               tpc[i] = "raised" => months_to_download[i] \in SeqToSet(failed_downloads)
        /\ \A i \in Tasks : tpc[i] \in Terminal
        /\ exit_code # "1"

\* C5: when orchestrate_cds_downloads returns, no month task is pending or
\* running: every planned month's task has run to its end, whatever the
\* status of the other months.
C5_ReturnsAfterEveryTask ==
    orch = "returned" =>
        \A i \in Tasks :
            /\ tpc[i] \in Terminal
            /\ status[i] \in {"success", "failed"} => tpc[i] = "done"

C5_Witness ==
    /\ orch = "returned"
    /\ \E i, j \in Tasks :
           /\ i < j
           /\ status[i] = "failed" /\ tpc[i] = "done"
           /\ status[j] = "success" /\ tpc[j] = "done"

\* C6: in parallel mode, when every month's download succeeds,
\* successful_downloads holds each planned month exactly once and
\* failed_downloads is empty.
C6_ParallelAppendsAllKept ==
    (/\ orch = "returned"
     /\ ParallelConf.enabled
     /\ \A i \in Tasks : status[i] = "success") =>
        /\ failed_downloads = <<>>
        /\ Len(successful_downloads) = Len(months_to_download)
        /\ SeqToSet(successful_downloads) = SeqToSet(months_to_download)

C6_Witness ==
    /\ orch = "returned"
    /\ ParallelConf.enabled
    /\ Len(months_to_download) >= 3
    /\ \A i \in Tasks : status[i] = "success"
    /\ successful_downloads # months_to_download

\* C7: in parallel mode the number of month downloads in progress never
\* exceeds the max_concurrent of the session's parallel_settings.
C7_PoolBound ==
    ParallelConf.enabled => Cardinality(InProgress) <= ParallelConf.max_concurrent

C7_Witness ==
    /\ ParallelConf.enabled
    /\ config.v.parallel_settings.max_concurrent = 1
    /\ Cardinality(InProgress) = ParallelConf.max_concurrent
    /\ \E i \in Tasks : tpc[i] = "pending"

\* C8: run() returns 0 when it completes with no failed month, 2 when it
\* completes with a failed month, 1 when it ends before any download, and
\* nothing else.
C8_ExitCodes ==
    rpc = "returned" =>
        /\ exit_code \in {"0", "1", "2"}
        /\ (orch = "returned" /\ failed_downloads = <<>>) => exit_code = "0"
        /\ (orch = "returned" /\ failed_downloads # <<>>) => exit_code = "2"
        /\ orch = "none" => exit_code = "1"

\* The configuration keys named by the messages run() logged.
ReportedFields == UNION {reported[k].fields : k \in 1..Len(reported)}

\* C9: for a configuration with several invalid fields run() reports every
\* one of them, starts no download and returns 1.
C9_AllErrorsReported ==
    (rpc = "returned" /\ Cardinality(InvalidFields(config)) >= 2) =>
        /\ InvalidFields(config) \subseteq ReportedFields
        /\ orch = "none"
        /\ exit_code = "1"

\* The months of the configured date range.
RangeMonths == MonthList(config.v.start_date, config.v.end_date)

\* C10: under skip_all, a run that follows a run of the same configuration
\* which downloaded every month of the range successfully makes no retrieve
\* call and records every month of the range in skipped_downloads, none in
\* successful_downloads or failed_downloads.
C10_SecondRunSkipsAll ==
    (/\ previous.ran
     /\ config.v.existing_file_action = "skip_all"
     /\ previous.successful = SeqToSet(RangeMonths)
     /\ previous.failed = {}
     /\ previous.skipped = {}) =>
        /\ TotalTries = 0
        /\ successful_downloads = <<>>
        /\ failed_downloads = <<>>
        /\ rpc \in {"download", "summary", "returned"} => skipped_downloads = RangeMonths
        /\ rpc = "returned" => orch = "returned" /\ months_to_download = <<>>

C10_Witness ==
    /\ previous.ran
    /\ config.v.existing_file_action = "skip_all"
    /\ previous.successful = SeqToSet(RangeMonths)
    /\ previous.failed = {}
    /\ previous.skipped = {}
    /\ Len(RangeMonths) >= 2
    /\ rpc = "returned"
    /\ skipped_downloads = RangeMonths


\* C11: once plan_cds_months has returned nothing decides about a month again:
\* every month of months_to_download is handed to execute_cds_download and
\* ends in successful_downloads or failed_downloads, and no month of
\* months_to_download is ever in skipped_downloads.
C11_PlannedMonthsNeverSkipped ==
    \A i \in Tasks :
        /\ months_to_download[i] \notin SeqToSet(skipped_downloads)
        /\ status[i] # "skipped"
        /\ tpc[i] = "done" =>
              months_to_download[i] \in
                  SeqToSet(successful_downloads) \cup SeqToSet(failed_downloads)

\* The months the overwrite question has been put for, one entry per question.
PromptMonths == [k \in 1..Len(prompts) |-> prompts[k].month]

\* C12: under case_by_case in interactive mode the overwrite question is put
\* once for each month that has an existing file and for no other month, every
\* question is put by the planner before a download task is launched, and a
\* month is scheduled exactly when its own answer is yes (or no file exists).
C12_OneQuestionPerMonthBeforeTasks ==
    (/\ run_mode = "interactive"
     /\ config.v.existing_file_action = "case_by_case"
     /\ rpc \in {"download", "summary", "returned"}) =>
        /\ \A k \in 1..Len(prompts) : prompts[k].by = "plan"
        /\ \A k, l \in 1..Len(prompts) : k # l => prompts[k].month # prompts[l].month
        /\ \A k \in 1..Len(prompts) :
              (prompts[k].answer = "yes") <=>
                  (prompts[k].month \in SeqToSet(months_to_download))
        /\ \A ym \in SeqToSet(RangeMonths) \ SeqToSet(PromptMonths) :
              ym \in SeqToSet(months_to_download)
        /\ (\A i \in Tasks : tpc[i] = "pending") =>
              SeqToSet(PromptMonths) =
                  {ym \in SeqToSet(RangeMonths) :
                      ExistingMonthFiles(directory, FilenameBase, ym[1], ym[2]) # {}}

\* C13: with "case_by_case" stored in the session and allow_prompts False,
\* validate_existing_file_action returns "skip_all", logs a warning and stores
\* "skip_all" in the session; from then on the run without prompts asks no
\* overwrite question and no task raises on account of the policy.
C13_CaseByCaseCoercedWithoutPrompts ==
    /\ (/\ rpc = "orchestrate"
        /\ SessionGet(session, "existing_file_action") = Some("case_by_case")) =>
          LET normal == validate_existing_file_action(session, FALSE)
          IN  /\ normal.policy = "skip_all"
              /\ "case_by_case_without_prompts" \in normal.warnings
              /\ SessionGet(normal.s, "existing_file_action") = Some("skip_all")
    /\ (/\ run_mode = "automatic"
        /\ config.v.existing_file_action = "case_by_case"
        /\ rpc \in {"download", "summary"}) =>
          /\ SessionGet(session, "existing_file_action") = Some("skip_all")
          /\ "case_by_case_without_prompts" \in warnings
          /\ prompts = <<>>
          /\ \A i \in Tasks : tpc[i] # "raised"

C13_Witness ==
    /\ run_mode = "automatic"
    /\ config.v.existing_file_action = "case_by_case"
    /\ rpc = "summary"
    /\ skipped_downloads # <<>>
    /\ successful_downloads # <<>>
    /\ "case_by_case_without_prompts" \in warnings

\* C14: plan_cds_months schedules a month of the range when no matching file
\* exists (under every policy) or when a file exists and the policy is
\* overwrite_all, records it as skipped and does not schedule it when a file
\* exists and the policy is skip_all, and puts every month of the range in
\* exactly one of its two lists.
C14_PlanByPolicy ==
    [][(rpc = "orchestrate" /\ rpc' # "orchestrate") =>
        LET policy == Val(SessionGet(session', "existing_file_action"))
            scheduled == SeqToSet(months_to_download')
            skipped == SeqToSet(skipped_downloads')
        IN  /\ \A ym \in SeqToSet(RangeMonths) :
                 LET exists == ExistingMonthFiles(directory, FilenameBase, ym[1], ym[2]) # {}
                 IN  /\ ~exists => ym \in scheduled
                     /\ (exists /\ policy = "overwrite_all") => ym \in scheduled
                     /\ (exists /\ policy = "skip_all") => ym \in skipped
                     /\ (ym \in scheduled) # (ym \in skipped)
            /\ scheduled \cup skipped = SeqToSet(RangeMonths)
            /\ Len(months_to_download') + Len(skipped_downloads') = Len(RangeMonths)
      ]_vars

C14_Witness ==
    /\ rpc = "download"
    /\ \A i \in Tasks : tpc[i] = "pending"
    /\ SessionGet(session, "existing_file_action") = Some("skip_all")
    /\ Len(skipped_downloads) = 2
    /\ Len(months_to_download) = 1

\* Months counted from year 0: the calendar month of a (year, month) pair.
MonthIndex(ym) == ym[1] * 12 + (ym[2] - 1)

\* The (year, month) pairs from s's month through e's month, by counting.
ExpectedMonths(s, e) ==
    [k \in 1..(MonthIndex(e) - MonthIndex(s) + 1) |->
        << (MonthIndex(s) + k - 1) \div 12, ((MonthIndex(s) + k - 1) % 12) + 1 >>]

\* C15: for a date range with end after start, the month list of
\* plan_cds_months is exactly the months from start_date's month through
\* end_date's month, in increasing order, without gap or duplicate, and the
\* planner's two lists hold those months and no other.
C15_MonthListIsTheRange ==
    LET s == SessionGet(session, "start_date")
        e == SessionGet(session, "end_date")
    IN  (/\ rpc \in {"orchestrate", "download", "summary"}
         /\ DateLT(Val(s), Val(e))) =>
            /\ MonthList(Val(s), Val(e)) = ExpectedMonths(Val(s), Val(e))
            /\ rpc # "orchestrate" =>
                 /\ SeqToSet(months_to_download) \cup SeqToSet(skipped_downloads)
                       = SeqToSet(ExpectedMonths(Val(s), Val(e)))
                 /\ \A i, j \in Tasks :
                       i < j => MonthIndex(months_to_download[i])
                                   < MonthIndex(months_to_download[j])

C15_Witness ==
    /\ rpc = "download"
    /\ SessionGet(session, "start_date") = Some(<<2020, 12, 31>>)
    /\ SessionGet(session, "end_date") = Some(<<2021, 1, 1>>)
    /\ months_to_download = << <<2020, 12>>, <<2021, 1>> >>

\* A list of (year, month) pairs in chronological order, no month twice.
Chronological(list) ==
    \A k, l \in 1..Len(list) : k < l => MonthIndex(list[k]) < MonthIndex(list[l])

\* C16: in sequential mode one month is downloaded at a time, the months are
\* started in chronological order, each after the one before it has ended,
\* and the entries of each outcome list are in chronological month order.
C16_SequentialInOrder ==
    (~ParallelConf.enabled /\ rpc \in {"download", "summary", "returned"}) =>
        /\ Cardinality(InProgress) <= 1
        /\ \A i, j \in Tasks : (i < j /\ tpc[j] # "pending") => tpc[i] \in Terminal
        /\ Chronological(months_to_download)
        /\ Chronological(successful_downloads)
        /\ Chronological(failed_downloads)
        /\ Chronological(skipped_downloads)

\* The months of the range the planner did not schedule.
PlannerSkipped == SelectSeq(RangeMonths, LAMBDA ym : ym \notin SeqToSet(months_to_download))

\* C17: every month the planner skipped is in skipped_downloads before the
\* first download task is launched, in both modes: from the moment the tasks
\* exist, and so at every retrieve attempt, skipped_downloads begins with
\* the planner's skipped months.
C17_SkippedMergedBeforeTasks ==
    (rpc \in {"download", "summary"}) =>
        /\ Len(skipped_downloads) >= Len(PlannerSkipped)
        /\ SubSeq(skipped_downloads, 1, Len(PlannerSkipped)) = PlannerSkipped

C17_Witness ==
    /\ rpc = "download"
    /\ ParallelConf.enabled
    /\ PlannerSkipped # <<>>
    /\ \E i \in Tasks : tpc[i] = "attempt" /\ tries[i] = 0
    /\ \A i \in Tasks : tries[i] = 0

\* C18: once a worker has replaced the session's session_client, every
\* retrieve attempt that starts afterwards is made with the client the
\* session holds at that moment, whether the attempt is the first of a task
\* scheduled later or the next attempt of a worker that holds an older handle.
C18_AttemptsUseSessionClient ==
    [][\A i \in Tasks :
         (/\ rpc = "download"
          /\ i \in DOMAIN tpc'
          /\ tpc[i] # "attempt"
          /\ tpc'[i] = "attempt") =>
             client'[i] = SessionGet(session', "session_client")
      ]_vars

\* The fields of a configuration handed to map_config_to_session whose values
\* are invalid: an end date not after the start date, retry or parallel
\* settings that are no mapping or hold text that is no number, a negative
\* retry count.
InvalidCallFields(cfg) ==
    (IF ~DateLT(cfg.v.start_date, cfg.v.end_date) THEN {"end_date"} ELSE {})
        \cup (IF PyShape(cfg.v.retry_settings) # "dict" THEN {"retry_settings"}
              ELSE IF cfg.v.retry_settings.max_retries < 0 THEN {"retry_settings"}
              ELSE {})
        \cup (IF PyShape(cfg.v.parallel_settings) # "dict"
              THEN {"parallel_settings"} ELSE {})

\* C19: map_config_to_session never raises for an invalid configuration
\* value; whenever a value is invalid, retry_settings or parallel_settings
\* that are no mapping or are not numeric included, it returns
\* (False, messages) with a message for each invalid field.
C19_MapNeverRaises ==
    (rpc # "call") =>
        /\ rpc # "raised"
        /\ InvalidCallFields(config) # {} =>
              /\ rpc = "rejected"
              /\ InvalidCallFields(config) \subseteq ReportedFields

C22_CoordinatesAcceptedExactly ==
    lib.fn = "validate_coordinates" =>
        /\ lib.result <=> /\ {lib.south, lib.north} \subseteq -90..90
                          /\ {lib.west, lib.east} \subseteq -180..180
                          /\ lib.south < lib.north
        /\ (lib.west \notin -180..180 \/ lib.east \notin -180..180) => ~lib.result
        /\ lib.north <= lib.south => ~lib.result

\* The bounds (north=10, west=-200, south=0, east=20) have been rejected.
C22_Witness ==
    /\ lib.fn = "validate_coordinates"
    /\ lib.north = 10 /\ lib.west = -200 /\ lib.south = 0 /\ lib.east = 20
    /\ ~lib.result

\* C26: generate_filename_hash depends on the dataset, the bounds and the
\* variables in sorted order only: a second call with the same dataset and
\* bounds and the same variables given in another order returns what the
\* first call returned.
C26_HashIgnoresVariableOrder ==
    (lib.fn = "generate_filename_hash" /\ lib.reordered) =>
        lib.result = Val(lib.before)

\* The second call was given three different variables in the reverse of
\* the sorted order.
C26_Witness ==
    /\ lib.fn = "generate_filename_hash"
    /\ lib.reordered
    /\ lib.variables = <<"total_precipitation", "snowfall", "2m_temperature">>

\* C25: after any sequence of set and unset calls, first_unfilled_key()
\* returns the first field in declaration order whose filled flag is False,
\* and None exactly when every field is filled; set and unset on a key that
\* is no declared field leave the session as it was.
C25_FirstUnfilledKey ==
    [][ /\ lib'.fn = "SessionState.first_unfilled_key" =>
             /\ IsNone(lib'.result) <=> \A k \in Fields : session'[k].filled
             /\ ~IsNone(lib'.result) =>
                  \E i \in 1..Len(FieldOrder) :
                      /\ FieldOrder[i] = Val(lib'.result)
                      /\ ~session'[FieldOrder[i]].filled
                      /\ \A j \in 1..(i - 1) : session'[FieldOrder[j]].filled
        /\ ( /\ lib'.fn \in {"SessionState.set", "SessionState.unset"}
             /\ lib'.key \notin Fields ) => session' = session
      ]_vars

\* first_unfilled_key has answered "save_dir" on a session whose first five
\* fields are filled, a later one filled as well.
C25_Witness ==
    /\ lib.fn = "SessionState.first_unfilled_key"
    /\ lib.result = Some("save_dir")
    /\ session["retry_settings"].filled

\* C23: each time run_prompt_wizard consults first_unfilled_key, the filled
\* fields are a prefix of the declaration order: no field is filled while a
\* field before it is unfilled, whatever values, 'back' commands and failed
\* authentications came before.
C23_FilledFieldsArePrefix ==
    (rpc = "wizard" /\ wizard.pc = "loop") =>
        \A i, j \in 1..Len(FieldOrder) :
            (i < j /\ session[FieldOrder[j]].filled) => session[FieldOrder[i]].filled

\* C30: once the user has answered no at "Proceed with download?",
\* inputs_confirmed is not True, run_prompt_wizard has not returned True and
\* main() has not gone on to run(): no download is started.
C30_NoMeansNoDownload ==
    wizard.answer = "no" =>
        /\ session["inputs_confirmed"].value # Some(TRUE)
        /\ wizard.pc # "returned_true"
        /\ rpc = "wizard"

\* C24: session_client is filled only while api_url and api_key are filled,
\* and the value it holds is a client that an authentication constructed,
\* never one handed in by the user or the configuration.
C24_ClientOnlyFromAuthentication ==
    session["session_client"].filled =>
        /\ session["api_url"].filled
        /\ session["api_key"].filled
        /\ Val(SessionGet(session, "session_client")) \in 1..clientsMade

\* C27: once run() has validated and mapped a configuration whose
\* parallel_settings.enabled is true, the max_concurrent stored in the session
\* is at least 2 and at most 8, whatever integer the configuration gave.
C27_MaxConcurrentWithinBounds ==
    (lib = NoCall /\ rpc = "orchestrate" /\ config.v.parallel_settings.enabled) =>
        /\ ParallelConf.enabled
        /\ ConcurrencyFloor <= ParallelConf.max_concurrent
        /\ ParallelConf.max_concurrent <= ConcurrencyCap

\* run() has mapped a configuration that asked for more than the cap, and
\* the session holds the cap.
C27_Witness ==
    /\ lib = NoCall
    /\ rpc = "orchestrate"
    /\ config.v.parallel_settings.enabled
    /\ "max_concurrent_limited" \in warnings
    /\ ParallelConf.max_concurrent = ConcurrencyCap

\* C28: when run() validates and maps a configuration, the retry settings the
\* executor reads afterwards have 0 <= max_retries <= 20 and
\* 0 <= retry_delay_sec <= 3600; a value above its cap is replaced by the cap
\* and a warning is logged, and no retry setting that is not negative makes
\* run() reject the configuration.
C28_RetrySettingsWithinCaps ==
    [][ (rpc = "start" /\ rpc' # "start") =>
          LET given == config.v.retry_settings
              max_retries == DictGet(given, "max_retries", DefaultMaxRetries)
              retry_delay == DictGet(given, "retry_delay_sec", DefaultRetryDelay)
              used == Val(SessionGet(session', "retry_settings"))
          IN  /\ rpc' = "orchestrate" =>
                    /\ session'["retry_settings"].filled
                    /\ 0 <= used.max_retries /\ used.max_retries <= RetryCap
                    /\ 0 <= used.retry_delay_sec /\ used.retry_delay_sec <= DelayCap
                    /\ max_retries <= RetryCap => used.max_retries = max_retries
                    /\ retry_delay <= DelayCap => used.retry_delay_sec = retry_delay
                    /\ max_retries > RetryCap =>
                          /\ used.max_retries = RetryCap
                          /\ "max_retries_capped" \in warnings'
                    /\ retry_delay > DelayCap =>
                          /\ used.retry_delay_sec = DelayCap
                          /\ "retry_delay_capped" \in warnings'
              /\ (max_retries >= 0 /\ retry_delay >= 0) =>
                    \A i \in 1..Len(reported') :
                        "retry_settings" \notin reported'[i].fields ]_vars

\* run() has mapped a configuration whose two retry settings were above
\* their caps: both warnings are logged and the session holds the caps.
C28_Witness ==
    /\ lib = NoCall
    /\ rpc = "orchestrate"
    /\ {"max_retries_capped", "retry_delay_capped"} \subseteq warnings
    /\ RetryConf.max_retries = RetryCap
    /\ RetryConf.retry_delay_sec = DelayCap

\* C29: called with a variable list that holds variables of the dataset's
\* deny-list, map_config_to_session stores the list without exactly those
\* variables, names them in its message and reports no error for the
\* variables, unless none is left: then, and only then, it reports the error
\* and stores no list.
C29_DenylistedVariablesFiltered ==
    (lib # NoCall /\ rpc # "call") =>
        LET deny == DatasetDenyList(config.v.dataset_short_name)
            kept == DropDenied(config.v.variables, deny)
            dropped == KeepDenied(config.v.variables, deny)
            rejected == \E i \in 1..Len(reported) : "variables" \in reported[i].fields
        IN  /\ lib.filtered = dropped
            /\ rejected <=> kept = <<>>
            /\ kept # <<>> => SessionGet(session, "variables") = Some(kept)
            /\ kept = <<>> => ~session["variables"].filled

\* C31: whenever run_prompt_wizard is at the top of its loop with a field
\* still unfilled, the loop body has a prompt for that field, so a pass of
\* the loop never leaves the session as it was; with valid answers the
\* wizard therefore goes on to return True.
C31_EveryUnfilledKeyIsPrompted ==
    /\ (rpc = "wizard" /\ wizard.pc = "loop" /\ ~IsNone(WizardKey)) =>
            Val(WizardKey) \in PromptedKeys(wizard.copy)
    /\ wizard.pc # "hung"

\* The prompts of the wizard in the order they are shown: one per field,
\* but none for session_client (filled by the api_key step) and none for
\* end_date (filled by the start_date step).
PromptOrder == SelectSeq(FieldOrder, LAMBDA k : k \notin {"session_client", "end_date"})

PromptIndex(key) == CHOOSE i \in 1..Len(PromptOrder) : PromptOrder[i] = key

\* The prompt shown before the prompt of `key`; the first prompt has itself.
PrecedingPrompt(key) ==
    IF PromptIndex(key) = 1 THEN key ELSE PromptOrder[PromptIndex(key) - 1]

\* C32: a pass of the wizard's loop in which the user typed back (fields
\* were unset and the prompt's own field is not filled, or back was typed at
\* "Confirm selection?") is followed by the prompt shown before, for every
\* prompt, the final confirmation included; at the first prompt the first
\* prompt is shown again.  (At api_key a refused key has the effect of back.)
C32_BackShowsPrecedingPrompt ==
    [][ ( /\ rpc = "wizard" /\ wizard.pc = "loop" /\ wizard'.pc = "loop"
          /\ ~IsNone(WizardKey)
          /\ ~session'[Val(WizardKey)].filled
          /\ (session' # session \/ wizard'.selection = "back") ) =>
            first_unfilled_key(session') = Some(PrecedingPrompt(Val(WizardKey))) ]_vars

\* C33: exit (or quit) typed at a prompt of the wizard makes
\* run_prompt_wizard return False, and after it has returned False main()
\* starts nothing: the session is never mapped from a configuration, run()
\* is not entered and no retrieve call is made.
C33_ExitStartsNoRun ==
    /\ (wizard.answer = "exit" \/ wizard.selection = "exit") =>
            wizard.pc = "returned_false"
    /\ wizard.pc = "returned_false" =>
            /\ rpc = "wizard"
            /\ exit_code = "unset"
            /\ orch = "none"
            /\ months_to_download = <<>>
            /\ tries = <<>>

\* The Region Bounds invariant on (north, west, south, east).
RegionBoundsOk(b) ==
    /\ -90 <= b[3] /\ b[3] < b[1] /\ b[1] <= 90
    /\ -180 <= b[2] /\ b[2] <= 180
    /\ -180 <= b[4] /\ b[4] <= 180

\* C34: while the wizard runs, the region_bounds stored in the session
\* satisfy the Region Bounds invariant, and at the region prompt every entry
\* that satisfies it is accepted.
C34_PromptStoresValidBounds ==
    rpc = "wizard" =>
        /\ session["region_bounds"].filled =>
                RegionBoundsOk(Val(SessionGet(session, "region_bounds")))
        /\ AtPrompt("region_bounds") =>
                \A b \in WizardBounds :
                    RegionBoundsOk(b) => ENABLED WizBounds("value", b)

\* C35: once read_input has returned "__EXIT__" at an overwrite question of
\* plan_cds_months, planning has stopped (no question is open and no month
\* is examined any more) and no month is scheduled or downloaded.
C35_PlannerStopsOnExit ==
    (lib # NoCall /\ lib.fn = "plan_cds_months" /\ lib.exited) =>
        /\ rpc # "planning"
        /\ months_to_download = <<>>
        /\ tries = <<>>

\* C36: orchestrate_cds_downloads, once entered, eventually returns, in
\* sequential and in parallel mode, and no month makes more retrieve calls
\* than max_retries.
C36_OrchestrateReturns ==
    /\ [](\A i \in Tasks : tries[i] <= MaxRetries)
    /\ (rpc = "orchestrate") ~> (orch = "returned")

\* A list grows at its end only.
Extends(before, after) ==
    /\ Len(before) <= Len(after)
    /\ SubSeq(after, 1, Len(before)) = before

\* While a run is under way the three outcome lists only grow at their ends.
ListsOnlyGrow ==
    rpc \in {"orchestrate", "download", "summary"} =>
        /\ Extends(successful_downloads, successful_downloads')
        /\ Extends(failed_downloads, failed_downloads')
        /\ Extends(skipped_downloads, skipped_downloads')

\* The three outcome lists hold every month of the date range exactly once.
ListsPartitionTheRange ==
    /\ SeqToSet(successful_downloads) \cap SeqToSet(failed_downloads) = {}
    /\ SeqToSet(successful_downloads) \cap SeqToSet(skipped_downloads) = {}
    /\ SeqToSet(failed_downloads) \cap SeqToSet(skipped_downloads) = {}
    /\ SeqToSet(successful_downloads) \cup SeqToSet(failed_downloads)
           \cup SeqToSet(skipped_downloads) = SeqToSet(RangeMonths)
    /\ Len(successful_downloads) + Len(failed_downloads)
           + Len(skipped_downloads) = Len(RangeMonths)

\* C37: when orchestrate_cds_downloads returns, successful_downloads,
\* failed_downloads and skipped_downloads are pairwise disjoint and hold
\* every month of the date range exactly once; while a run is under way the
\* three lists only grow at their ends.
C37_ListsPartitionTheRange ==
    /\ [](orch = "returned" => ListsPartitionTheRange)
    /\ [][ListsOnlyGrow]_vars

\* C38: under skip_all, a month whose download ended "failed" in the run
\* before is planned for download again by the run that follows with the
\* same configuration, and is not recorded as skipped.
C38_FailedMonthIsPlannedAgain ==
    (/\ previous.ran
     /\ config.v.existing_file_action = "skip_all"
     /\ orch \in {"running", "returned", "raised"}
     /\ rpc \in {"download", "summary", "returned"}) =>
        \A m \in previous.failed :
            /\ m \in SeqToSet(months_to_download)
            /\ m \notin SeqToSet(skipped_downloads)

\* Client handles are numbered in the order of their construction.
SessionClient(s) == Val(SessionGet(s, "session_client"))

\* C39: in parallel mode, once a worker has stored a newly authenticated
\* client in session_client, no worker's re-authentication between attempts
\* replaces it with a handle constructed before it.
C39_NewClientNotOverwrittenByOlder ==
    [][\A i \in Tasks :
         (/\ rpc = "download"
          /\ ParallelConf.enabled
          /\ tpc[i] = "reauth"
          /\ reauth'[i] \in {"same", "new"}) =>
             SessionClient(session') >= SessionClient(session)
      ]_vars

\* The session fields map_config_to_session is to fill.
MappedFields == SeqToSet(FieldOrder) \ {"inputs_confirmed"}

\* C40: map_config_to_session returns ok = True only with every session field
\* except inputs_confirmed filled, and returns ok = False whenever it
\* recorded an error.
C40_OkMeansEveryFieldFilled ==
    (lib # NoCall /\ lib.fn = "map_config_to_session" /\ rpc # "raised") =>
        /\ rpc = "orchestrate" => \A key \in MappedFields : session[key].filled
        /\ reported # <<>> => rpc = "rejected"

====
